---- MODULE Spec2Model ----
(***************************************************************************)
(* FileClassify: the rule DSL parser and path generator (core/utils.py),   *)
(* the local language-model port (core/llm/local_llama.py), the prompt     *)
(* builder (core/ai_engine.py), the format parsers (core/parsers) with     *)
(* the PDF hybrid extraction, and the window with its scan workers         *)
(* (src/main.py).                                                          *)
(*                                                                         *)
(* A Python str is modelled as a sequence of characters, each character a  *)
(* one-character string; a character outside ASCII is written by its code  *)
(* point ("uFF0C" is the full-width comma).                                *)
(***************************************************************************)
EXTENDS Integers, Sequences, FiniteSets, TLC

VARIABLES
    rule_string,    \* the instruction string given to the rule DSL functions
    ai_data_dict,   \* the classification record given to generate_target_path
    op,             \* the rule DSL function that returned last
    parsed_rules,   \* the chain returned by the last parse_rule_string call
    path_parts,     \* generate_target_path's local list of segments
    path,           \* the string returned by the last generate_target_path call
    dynamic_prompt, \* the string returned by the last build_dynamic_prompt call
    llm,            \* LocalLlamaLLM.llm: the model handle, or "None"
    options,        \* the options list given to classify
    prompt,         \* the prompt (for classify: the text) given to the call
    system_prompt,  \* the system prompt given to the call, or None
    messages,       \* the message list of the last backend call
    response,       \* the backend's raw answer to the last backend call
    backend_calls,  \* the create_chat_completion calls the last operation made
    llm_op,         \* the port operation that ended last
    llm_result,     \* what that operation returned or raised
    _parsers,       \* ParserFactory._parsers: extension -> parser class
    file_path,      \* the path given to get_parser
    path_exists,    \* whether that path exists
    parser_class,   \* the class given to register_parser
    extension,      \* the extension given to register_parser
    parser,         \* the parser instance get_parser returned, or "None"
    backends,       \* the parser's libraries: which are installed, which fail
    max_length,     \* the max_length given to extract_summary
    document_text,  \* what the parser's extraction yields when nothing fails
    parser_op,      \* the parser operation that ended last
    parser_result,  \* what that operation returned or raised
    pdf_doc,        \* the pages of the PDF the last extract_text call opened
    ocr_backend,    \* whether rapidocr_onnxruntime is installed
    _ocr_engine,    \* PDFParser._ocr_engine: the shared OCR engine, or None
    engines_constructed, \* the RapidOCR() constructions of this process
    ocr_invoked,    \* whether the last extract_text call ran _extract_with_ocr
    sampled_text,   \* extracted_text after the sampling pass of that call
    ocr_text,       \* what _extract_with_ocr returned to that call
    carried_text,   \* extracted_text of that call before the tail pages
    escalations,    \* the extract_text calls so far that ran _extract_with_ocr
    callers,        \* concurrent callers of _extract_with_ocr: where each is
    gui_pc,         \* where the GUI thread is: its event loop, or inside a handler
    current_folder, \* MainWindow.current_folder
    file_tree,      \* MainWindow.file_tree: the scan results shown, oldest first
    status_label,   \* MainWindow.status_label: what the status bar tells
    loader_worker,  \* MainWindow.loader_worker: the TreeLoaderWorker and its thread
    counter_thread, \* MainWindow.counter_thread: the FileCounterThread and its thread
    event_queue,    \* the signals emitted by workers and not yet delivered
    loads           \* the load_folder calls so far

rule_vars == <<rule_string, ai_data_dict, op, parsed_rules, path_parts, path,
               dynamic_prompt>>
llm_vars == <<llm, options, prompt, system_prompt, messages, response, backend_calls,
              llm_op, llm_result>>
parser_vars == <<_parsers, file_path, path_exists, parser_class, extension, parser, backends,
                 max_length, document_text, parser_op, parser_result>>
pdf_vars == <<pdf_doc, ocr_backend, _ocr_engine, engines_constructed, ocr_invoked,
              sampled_text, ocr_text, carried_text, escalations, callers>>
gui_vars == <<gui_pc, current_folder, file_tree, status_label, loader_worker,
              counter_thread, event_queue, loads>>
vars == <<rule_string, ai_data_dict, op, parsed_rules, path_parts, path, dynamic_prompt,
          llm, options, prompt, system_prompt, messages, response, backend_calls,
          llm_op, llm_result,
          _parsers, file_path, path_exists, parser_class, extension, parser, backends,
          max_length, document_text, parser_op, parser_result,
          pdf_doc, ocr_backend, _ocr_engine, engines_constructed, ocr_invoked,
          sampled_text, ocr_text, carried_text, escalations, callers,
          gui_pc, current_folder, file_tree, status_label, loader_worker,
          counter_thread, event_queue, loads>>

(***************************************************************************)
(* Bounds of the model.                                                    *)
(***************************************************************************)
\* the number of '>>'-joined pieces an instruction is built from
MaxTokens == 2
\* the number of options given to classify
MaxOptions == 2

(***************************************************************************)
(* Python str primitives.                                                  *)
(***************************************************************************)
UpperLetters == <<"A", "B", "C", "D", "E", "F", "G", "H", "I", "J", "K", "L", "M",
                  "N", "O", "P", "Q", "R", "S", "T", "U", "V", "W", "X", "Y", "Z">>

LowerLetters == <<"a", "b", "c", "d", "e", "f", "g", "h", "i", "j", "k", "l", "m",
                  "n", "o", "p", "q", "r", "s", "t", "u", "v", "w", "x", "y", "z">>

\* str.isspace of one character; also the class \s of the re module
IsSpace(c) == c \in {" ", "\t", "\n", "\r"}

UpperSet == {UpperLetters[i] : i \in 1..Len(UpperLetters)}

\* the lower-case letter of each upper-case letter
LowerOf == [u \in UpperSet |-> LowerLetters[CHOOSE i \in 1..Len(UpperLetters) : UpperLetters[i] = u]]

LowerChar(c) == IF c \in UpperSet THEN LowerOf[c] ELSE c

\* str.lower()
lower(s) == [i \in 1..Len(s) |-> LowerChar(s[i])]

\* the first index from i on, and the last index down from i, that holds no
\* whitespace
RECURSIVE lstrip_index(_, _)
lstrip_index(s, i) ==
    IF i > Len(s) \/ ~IsSpace(s[i]) THEN i ELSE lstrip_index(s, i + 1)

RECURSIVE rstrip_index(_, _)
rstrip_index(s, i) ==
    IF i < 1 \/ ~IsSpace(s[i]) THEN i ELSE rstrip_index(s, i - 1)

\* str.strip(): drop the leading and the trailing whitespace
strip(s) ==
    IF lstrip_index(s, 1) > Len(s) THEN <<>>
    ELSE SubSeq(s, lstrip_index(s, 1), rstrip_index(s, Len(s)))

\* s.startswith(t) at offset i (1-based): t occurs in s at position i
OccursAt(s, t, i) ==
    /\ i >= 1
    /\ i + Len(t) - 1 <= Len(s)
    /\ \A j \in 1..Len(t) : s[i + j - 1] = t[j]

\* t in s  (substring test)
Contains(s, t) == \E i \in 1..(Len(s) + 1) : OccursAt(s, t, i)

\* str.split(sep) for a non-empty sep: cut at each occurrence found scanning
\* from the left, occurrences never overlapping
RECURSIVE split(_, _)
split(s, sep) ==
    LET hits == {k \in 1..Len(s) : OccursAt(s, sep, k)}
    IN IF hits = {} THEN <<s>>
       ELSE LET i == CHOOSE k \in hits : \A j \in hits : k <= j
            IN <<SubSeq(s, 1, i - 1)>> \o split(SubSeq(s, i + Len(sep), Len(s)), sep)

\* re_split_commas cutting at the ASCII comma alone
RECURSIVE re_split_ascii_comma(_)
re_split_ascii_comma(s) ==
    LET commas == {k \in 1..Len(s) : s[k] = ","}
    IN IF commas = {} THEN <<s>>
       ELSE LET i == CHOOSE k \in commas : \A j \in commas : k <= j
            IN <<SubSeq(s, 1, i - 1)>> \o re_split_ascii_comma(SubSeq(s, i + 1, Len(s)))

\* re.split(r'[,，]', s): cut at every ASCII or full-width comma
RECURSIVE re_split_commas(_)
re_split_commas(s) ==
    LET commas == {k \in 1..Len(s) : s[k] \in {",", "uFF0C"}}
    IN IF commas = {} THEN <<s>>
       ELSE LET i == CHOOSE k \in commas : \A j \in commas : k <= j
            IN <<SubSeq(s, 1, i - 1)>> \o re_split_commas(SubSeq(s, i + 1, Len(s)))

\* the longest prefix of s made of characters other than c
RunNot(s, c) ==
    LET hits == {k \in 1..Len(s) : s[k] = c}
    IN IF hits = {} THEN Len(s)
       ELSE (CHOOSE k \in hits : \A j \in hits : k <= j) - 1

(***************************************************************************)
(* parse_rule_string                                                       *)
(***************************************************************************)
\* re.match(r'^([^\[]+)(?:\s*\[([^\]]+)\])?$', part) on a stripped part.
\* Group 1 is greedy: it takes every character before the first '['.  When
\* there is no '[' the optional group is skipped and group 2 is None.  When
\* there is one, it must be taken (nothing but '$' may follow group 1
\* otherwise), so group 2 is the run of non-']' characters after it, which
\* must be non-empty and be followed by a ']' that ends the string.  A
\* shorter group 1 (backtracking into \s*) changes nothing of this.
re_match(part) ==
    LET n1 == RunNot(part, "[")
        rest == SubSeq(part, n1 + 2, Len(part))
        n2 == RunNot(rest, "]")
    IN IF n1 = 0 THEN [matched |-> FALSE, g1 |-> <<>>, g2none |-> TRUE, g2 |-> <<>>]
       ELSE IF n1 = Len(part)
            THEN [matched |-> TRUE, g1 |-> part, g2none |-> TRUE, g2 |-> <<>>]
       ELSE IF n2 >= 1 /\ n2 + 1 = Len(rest)
            THEN [matched |-> TRUE, g1 |-> SubSeq(part, 1, n1),
                  g2none |-> FALSE, g2 |-> SubSeq(rest, 1, n2)]
       ELSE [matched |-> FALSE, g1 |-> <<>>, g2none |-> TRUE, g2 |-> <<>>]

\* the synonym table: the keys of field_mapping and the canonical key of each
field_mapping_keys ==
    << <<"u7C7B", "u578B">>,
       <<"c", "a", "t", "e", "g", "o", "r", "y">>,
       <<"u5E74", "u4EFD">>,
       <<"y", "e", "a", "r">>,
       <<"u6708", "u4EFD">>,
       <<"m", "o", "n", "t", "h">>,
       <<"u539F", "u6587", "u4EF6", "u540D">>,
       <<"o", "r", "i", "g", "i", "n", "a", "l", " ", "n", "a", "m", "e">>,
       <<"u6458", "u8981">>,
       <<"s", "u", "m", "m", "a", "r", "y">> >>

field_mapping_values ==
    << <<"c", "a", "t", "e", "g", "o", "r", "y">>,
       <<"c", "a", "t", "e", "g", "o", "r", "y">>,
       <<"y", "e", "a", "r">>,
       <<"y", "e", "a", "r">>,
       <<"m", "o", "n", "t", "h">>,
       <<"m", "o", "n", "t", "h">>,
       <<"o", "r", "i", "g", "i", "n", "a", "l", "_", "n", "a", "m", "e">>,
       <<"o", "r", "i", "g", "i", "n", "a", "l", "_", "n", "a", "m", "e">>,
       <<"s", "u", "m", "m", "a", "r", "y">>,
       <<"s", "u", "m", "m", "a", "r", "y">> >>

\* field_mapping.get(name, default)
field_mapping_get(name, default) ==
    IF \E i \in 1..Len(field_mapping_keys) : field_mapping_keys[i] = name
    THEN field_mapping_values[CHOOSE i \in 1..Len(field_mapping_keys) :
                                  field_mapping_keys[i] = name]
    ELSE default

\* options = None
NoOptions == [none |-> TRUE, list |-> <<>>]

\* [opt.strip() for opt in re.split(r'[,，]', options_str) if opt.strip()]
RECURSIVE StripNonEmpty(_)
StripNonEmpty(items) ==
    IF items = <<>> THEN <<>>
    ELSE LET o == strip(Head(items))
         IN (IF o = <<>> THEN <<>> ELSE <<o>>) \o StripNonEmpty(Tail(items))

parse_options(options_str) == StripNonEmpty(re_split_commas(options_str))

NotBlankPart(part) == strip(part) # <<>>

\* parse_part looking the name up, and passing it through, as written
parse_part_no_lower(part) ==
    LET match == re_match(strip(part))
    IN IF match.matched
       THEN LET field_name == strip(match.g1)
            IN [key |-> field_mapping_get(field_name, field_name),
                options |-> IF match.g2none THEN NoOptions
                            ELSE [none |-> FALSE, list |-> parse_options(match.g2)]]
       ELSE [key |-> field_mapping_get(part, part), options |-> NoOptions]

\* the body of the loop over parts: the RuleSpec appended for one part
parse_part(part) ==
    LET match == re_match(strip(part))
    IN IF match.matched
       THEN LET field_name == strip(match.g1)
            IN [key |-> field_mapping_get(lower(field_name), lower(field_name)),
                options |-> IF match.g2none THEN NoOptions
                            ELSE [none |-> FALSE, list |-> parse_options(match.g2)]]
       ELSE [key |-> field_mapping_get(lower(part), lower(part)),
             options |-> NoOptions]

\* parse_rule_string leaving out the parts that are blank
parse_rule_string_skip_blank(s) ==
    IF s = <<>> \/ strip(s) = <<>> THEN <<>>
    ELSE LET parts == SelectSeq(split(s, <<">", ">">>), NotBlankPart)
         IN [i \in 1..Len(parts) |-> parse_part(strip(parts[i]))]

parse_rule_string(s) ==
    IF s = <<>> \/ strip(s) = <<>> THEN <<>>
    ELSE LET parts == split(s, <<">", ">">>)
         IN [i \in 1..Len(parts) |-> parse_part(strip(parts[i]))]

(***************************************************************************)
(* generate_target_path                                                    *)
(***************************************************************************)
\* A value of the record: a Python object of type str, int, bool or NoneType.
PyStr(s) == [t |-> "str", s |-> s, n |-> 0, b |-> FALSE]
PyInt(n) == [t |-> "int", s |-> <<>>, n |-> n, b |-> FALSE]
PyBool(b) == [t |-> "bool", s |-> <<>>, n |-> 0, b |-> b]
PyNone == [t |-> "NoneType", s |-> <<>>, n |-> 0, b |-> FALSE]

Digits == <<"0", "1", "2", "3", "4", "5", "6", "7", "8", "9">>

\* the decimal digits of a natural number
RECURSIVE NatToStr(_)
NatToStr(n) ==
    IF n < 10 THEN <<Digits[n + 1]>>
    ELSE NatToStr(n \div 10) \o <<Digits[(n % 10) + 1]>>

\* str(value)
str(value) ==
    CASE value.t = "str" -> value.s
      [] value.t = "int" -> IF value.n < 0 THEN <<"-">> \o NatToStr(0 - value.n)
                            ELSE NatToStr(value.n)
      [] value.t = "bool" -> IF value.b THEN <<"T", "r", "u", "e">>
                             ELSE <<"F", "a", "l", "s", "e">>
      [] OTHER -> <<"N", "o", "n", "e">>

\* bool(value): the truth value Python's `if value` tests
Truthy(value) ==
    CASE value.t = "str" -> value.s # <<>>
      [] value.t = "int" -> value.n # 0
      [] value.t = "bool" -> value.b
      [] OTHER -> FALSE

Unknown == <<"U", "n", "k", "n", "o", "w", "n">>

\* os.sep of the platform (POSIX)
sep == "/"

\* path_part emitting only a value that is among the rule's options
path_part_enforce_options(rule, record) ==
    IF rule.key \in DOMAIN record
    THEN LET value == record[rule.key]
         IN IF /\ Truthy(value)
               /\ strip(str(value)) # <<>>
               /\ \/ rule.options.none
                  \/ \E k \in 1..Len(rule.options.list) :
                         rule.options.list[k] = strip(str(value))
            THEN strip(str(value))
            ELSE Unknown
    ELSE Unknown

\* the segment appended to path_parts for one rule
path_part(rule, record) ==
    IF rule.key \in DOMAIN record
    THEN LET value == record[rule.key]
         IN IF Truthy(value) /\ strip(str(value)) # <<>>
            THEN strip(str(value))
            ELSE Unknown
    ELSE Unknown

\* posixpath.join(a, *p): a part that starts with the separator discards what
\* was joined before it; a separator is inserted unless the path so far is
\* empty or ends with one
RECURSIVE JoinFrom(_, _)
JoinFrom(acc, p) ==
    IF p = <<>> THEN acc
    ELSE LET b == Head(p)
         IN JoinFrom(IF b # <<>> /\ b[1] = sep THEN b
                     ELSE IF acc = <<>> \/ acc[Len(acc)] = sep THEN acc \o b
                     ELSE acc \o <<sep>> \o b,
                     Tail(p))

os_path_join(parts) == JoinFrom(Head(parts), Tail(parts))

\* the list path_parts built by the loop over parsed_rules
build_path_parts(rules, record) ==
    [i \in 1..Len(rules) |-> path_part(rules[i], record)]

\* generate_target_path without the early return for an empty chain
generate_target_path_no_early_return(s, record) ==
    LET rules == parse_rule_string(s)
        parts == build_path_parts(rules, record)
    IN IF parts = <<>> THEN <<>> ELSE os_path_join(parts)

generate_target_path(s, record) ==
    LET rules == parse_rule_string(s)
        parts == build_path_parts(rules, record)
    IN IF rules = <<>> THEN Unknown
       ELSE IF parts = <<>> THEN Unknown
       ELSE os_path_join(parts)

(***************************************************************************)
(* Inputs of the rule DSL functions.                                       *)
(***************************************************************************)
\* the pieces instructions are built from, joined with '>>'
Tokens ==
    { <<>>,
      <<" ">>,
      <<"Y", "E", "A", "R">>,
      <<"u5E74", "u4EFD">>,
      <<"x", "Y">>,
      <<" ", "Y", "e", "a", "r", " ", "[", "A", ",", " ", "b", "]", " ">>,
      <<"x", "Y", "[", "b", "uFF0C", "A", ",", ",", " ", "]">>,
      <<"x", "Y", " ", "[", "]">>,
      <<"x", "Y", " ", "[", " ", ",", " ", "]">>,
      <<">", "a">>,
      <<"[", "A", "]">>,
      <<"x", "Y", " ", "[", "A">>,
      <<"O", "r", "i", "g", "i", "n", "a", "l", " ", "N", "a", "m", "e">> }

RECURSIVE JoinTokens(_)
JoinTokens(ts) ==
    IF Len(ts) = 1 THEN ts[1]
    ELSE ts[1] \o <<">", ">">> \o JoinTokens(Tail(ts))

Instructions ==
    {JoinTokens(ts) : ts \in UNION {[1..n -> Tokens] : n \in 1..MaxTokens}}

KeyCategory == <<"c", "a", "t", "e", "g", "o", "r", "y">>
KeyYear == <<"y", "e", "a", "r">>
KeyMonth == <<"m", "o", "n", "t", "h">>
KeyXy == <<"x", "y">>
KeyOriginalName == <<"o", "r", "i", "g", "i", "n", "a", "l", "_", "n", "a", "m", "e">>

\* classification records: the one of the tests, values holding the
\* separator, values that are not strings, and blank values
Records ==
    { (KeyCategory :> PyStr(<<"W", "o", "r", "k">>))
          @@ (KeyYear :> PyStr(<<"2", "0", "2", "4">>))
          @@ (KeyMonth :> PyStr(<<"0", "1">>)),
      (KeyYear :> PyStr(<<"a", "/", "b">>)) @@ (KeyXy :> PyStr(<<"/", "c">>)),
      (KeyYear :> PyInt(0)) @@ (KeyXy :> PyNone) @@ (KeyOriginalName :> PyBool(FALSE)),
      (KeyYear :> PyStr(<<" ", "2", "0", "2", "4", " ">>))
          @@ (KeyXy :> PyStr(<<" ", " ">>))
          @@ (KeyOriginalName :> PyStr(<<>>)),
      (KeyYear :> PyInt(17)) @@ (KeyXy :> PyStr(<<"B">>))
          @@ (KeyOriginalName :> PyBool(TRUE)) }

(***************************************************************************)
(* The rule DSL functions as operations on the inputs.                     *)
(***************************************************************************)
RuleInit ==
    /\ rule_string \in Instructions
    /\ ai_data_dict \in Records
    /\ op = "none"
    /\ parsed_rules = <<>>
    /\ path_parts = <<>>
    /\ path = <<>>
    /\ dynamic_prompt = <<>>

\* a call parse_rule_string(rule_string)
ParseRuleString ==
    /\ op' = "parse_rule_string"
    /\ parsed_rules' = parse_rule_string(rule_string)
    /\ UNCHANGED <<rule_string, ai_data_dict, path_parts, path, dynamic_prompt>>
    /\ UNCHANGED <<llm_vars, parser_vars, pdf_vars, gui_vars>>

\* a call generate_target_path(rule_string, ai_data_dict)
GenerateTargetPath ==
    /\ op' = "generate_target_path"
    /\ LET rules == parse_rule_string(rule_string)
       IN /\ parsed_rules' = rules
          /\ path_parts' = build_path_parts(rules, ai_data_dict)
    /\ path' = generate_target_path(rule_string, ai_data_dict)
    /\ UNCHANGED <<rule_string, ai_data_dict, dynamic_prompt>>
    /\ UNCHANGED <<llm_vars, parser_vars, pdf_vars, gui_vars>>

\* system_prompt = None
NoSystemPrompt == [none |-> TRUE, s |-> <<>>]

\* no backend call was made, and nothing was returned or raised
NoResponse == [got |-> FALSE, text |-> <<>>]
NoResult == [kind |-> "none", value |-> <<>>, exc |-> "None", msg |-> ""]

\* the language-model port is left alone
LLMIdle ==
    /\ llm = "None"
    /\ options = <<>>
    /\ prompt = <<>>
    /\ system_prompt = NoSystemPrompt
    /\ messages = <<>>
    /\ response = NoResponse
    /\ backend_calls = 0
    /\ llm_op = "none"
    /\ llm_result = NoResult

\* the format parsers are left alone
ParserIdle ==
    /\ _parsers = <<>>
    /\ file_path = <<>>
    /\ path_exists = FALSE
    /\ parser_class = "None"
    /\ extension = <<>>
    /\ parser = "None"
    /\ backends = <<>>
    /\ max_length = 0
    /\ document_text = <<>>
    /\ parser_op = "none"
    /\ parser_result = NoResult

\* the PDF extraction is left alone
PdfIdle ==
    /\ pdf_doc = <<>>
    /\ ocr_backend = "none"
    /\ _ocr_engine = [none |-> TRUE, id |-> 0]
    /\ engines_constructed = 0
    /\ ocr_invoked = FALSE
    /\ sampled_text = <<>>
    /\ ocr_text = <<>>
    /\ carried_text = <<>>
    /\ escalations = 0
    /\ callers = <<>>

\* the window is left alone
GuiIdle ==
    /\ gui_pc = "none"
    /\ current_folder = "None"
    /\ file_tree = <<>>
    /\ status_label = "0"
    /\ loader_worker = <<>>
    /\ counter_thread = <<>>
    /\ event_queue = <<>>
    /\ loads = 0

NextRule == ParseRuleString \/ GenerateTargetPath

InitRule == RuleInit /\ LLMIdle /\ ParserIdle /\ PdfIdle /\ GuiIdle

SpecRule == InitRule /\ [][NextRule]_vars

(***************************************************************************)
(* The language-model port: LocalLlamaLLM (core/llm/local_llama.py).       *)
(* The fixed text of a prompt template is written as one symbol.           *)
(***************************************************************************)
\* the option strings classify is given: one is inside another, one ends
\* with whitespace
OptionStrings ==
    { <<"A", "b">>, <<"x", "A", "b">>, <<"c", " ">>, <<"D">> }

OptionLists == UNION {[1..n -> OptionStrings] : n \in 0..MaxOptions}

Prompts == { <<"p">>, <<"q">> }

\* None, the empty string and a non-empty system prompt
SystemPrompts ==
    { NoSystemPrompt, [none |-> FALSE, s |-> <<>>], [none |-> FALSE, s |-> <<"s">>] }

\* what the backend may answer
Responses ==
    { <<"a", "b">>, <<"X", "A", "B">>, <<"c", " ">>, <<" ", "d", "\n">>,
      <<"z", "z">>, <<>> }

\* what the backend may answer to extract_json: no brace, an object, an
\* object inside text, an object followed by a brace, a nested object,
\* braces in the wrong order, braces around something else, the empty
\* object, a key given twice
JsonResponses ==
    { <<"z", "z">>,
      <<"{", "\"", "k", "\"", ":", "\"", "v", "\"", "}">>,
      <<"a", " ", "{", "\"", "k", "\"", ":", "1", "}", " ", "a">>,
      <<"{", "\"", "k", "\"", ":", "1", "}", " ", "}">>,
      <<"{", "\"", "a", "\"", ":", "{", "\"", "k", "\"", ":", "1", "}", "}">>,
      <<"}", " ", "{">>,
      <<"{", "k", "}">>,
      <<"{", "}">>,
      <<"{", "\"", "k", "\"", ":", "1", ",", "\"", "k", "\"", ":", "1", "1", "}">> }

\* llm.create_chat_completion: it raises, or returns a response with a text
BackendOutcomes(answers) ==
    {[raises |-> TRUE, text |-> <<>>]} \cup {[raises |-> FALSE, text |-> r] : r \in answers}

\* the instance exists: __init__ returned
Constructed == llm_op # "none" /\ ~(llm_op = "__init__" /\ llm_result.kind = "raise")

Return(v) == [kind |-> "return", value |-> v, exc |-> "None", msg |-> ""]
Raise(e) == [kind |-> "raise", value |-> <<>>, exc |-> e, msg |-> ""]
RaiseMsg(e, m) == [kind |-> "raise", value |-> <<>>, exc |-> e, msg |-> m]

\* ', '.join(options)
RECURSIVE join_options(_)
join_options(opts) ==
    IF opts = <<>> THEN <<>>
    ELSE IF Len(opts) = 1 THEN opts[1]
    ELSE opts[1] \o <<",", " ">> \o join_options(Tail(opts))

\* generate adding the system message whenever system_prompt is not None
build_messages_when_not_none(user_prompt, sp) ==
    (IF ~sp.none THEN <<[role |-> "system", content |-> sp.s]>> ELSE <<>>)
        \o <<[role |-> "user", content |-> user_prompt]>>

\* the messages generate sends: a system message when system_prompt is
\* truthy, then the user message
build_messages(user_prompt, sp) ==
    (IF ~sp.none /\ sp.s # <<>> THEN <<[role |-> "system", content |-> sp.s]>> ELSE <<>>)
        \o <<[role |-> "user", content |-> user_prompt]>>

\* what generate returns or raises, given what the backend does
generate(backend) ==
    IF llm = "None" THEN RaiseMsg("RuntimeError", "model not loaded")
    ELSE IF backend.raises THEN RaiseMsg("RuntimeError", "generation failed")
    ELSE Return(backend.text)

\* the pattern with a lazy '.*?': the match ends at the first '}' after
\* its start
re_search_braces_lazy(s) ==
    LET starts == {i \in 1..Len(s) : s[i] = "{" /\ \E j \in (i + 1)..Len(s) : s[j] = "}"}
    IN IF starts = {} THEN [matched |-> FALSE, group0 |-> <<>>]
       ELSE LET i == CHOOSE x \in starts : \A y \in starts : x <= y
                ends == {j \in (i + 1)..Len(s) : s[j] = "}"}
                j == CHOOSE x \in ends : \A y \in ends : x <= y
            IN [matched |-> TRUE, group0 |-> SubSeq(s, i, j)]

\* re.search(r'\{.*\}', response, re.DOTALL): the match starts at the
\* leftmost '{' that has a '}' after it and, '.*' being greedy and matching
\* newlines, ends at the last '}' of the response
re_search_braces(s) ==
    LET starts == {i \in 1..Len(s) : s[i] = "{" /\ \E j \in (i + 1)..Len(s) : s[j] = "}"}
    IN IF starts = {} THEN [matched |-> FALSE, group0 |-> <<>>]
       ELSE LET i == CHOOSE x \in starts : \A y \in starts : x <= y
                ends == {j \in (i + 1)..Len(s) : s[j] = "}"}
                j == CHOOSE x \in ends : \A y \in ends : x >= y
            IN [matched |-> TRUE, group0 |-> SubSeq(s, i, j)]

\* json.loads on the characters the modelled answers are made of: braces,
\* the double quote, colon, comma, whitespace, digits and letters (no
\* backslash, bracket, sign or point, and no literal true, false or null)
PyDict(d) == [t |-> "dict", d |-> d]

\* d[k] = v on a dict held as a function from keys to values
SetItem(d, k, v) == [x \in (DOMAIN d) \cup {k} |-> IF x = k THEN v ELSE d[x]]

JsonFail == [ok |-> FALSE, end |-> 0, v |-> <<>>]
\* a value was decoded; end is the index after its last character
JsonOk(v, end) == [ok |-> TRUE, end |-> end, v |-> v]

IsDigit(c) == \E i \in 1..Len(Digits) : Digits[i] = c

RECURSIVE StrToNat(_)
StrToNat(s) ==
    IF s = <<>> THEN 0
    ELSE 10 * StrToNat(SubSeq(s, 1, Len(s) - 1))
             + ((CHOOSE i \in 1..Len(Digits) : Digits[i] = s[Len(s)]) - 1)

\* the index of the first character at or after i that is not whitespace
RECURSIVE skip_whitespace(_, _)
skip_whitespace(s, i) ==
    IF i <= Len(s) /\ IsSpace(s[i]) THEN skip_whitespace(s, i + 1) ELSE i

\* a string whose opening quote is s[i]: it ends at the next quote and holds
\* no control character
scan_string(s, i) ==
    LET closes == {j \in (i + 1)..Len(s) : s[j] = "\""}
    IN IF closes = {} THEN JsonFail
       ELSE LET j == CHOOSE x \in closes : \A y \in closes : x <= y
            IN IF \E p \in (i + 1)..(j - 1) : s[p] \in {"\t", "\n", "\r"}
               THEN JsonFail
               ELSE JsonOk(PyStr(SubSeq(s, i + 1, j - 1)), j + 1)

RECURSIVE DigitRun(_, _)
DigitRun(s, i) ==
    IF i <= Len(s) /\ IsDigit(s[i]) THEN DigitRun(s, i + 1) ELSE i

\* an integer whose first digit is s[i]: '0', or a digit run without a
\* leading zero
scan_number(s, i) ==
    IF s[i] = "0" THEN JsonOk(PyInt(0), i + 1)
    ELSE JsonOk(PyInt(StrToNat(SubSeq(s, i, DigitRun(s, i) - 1))), DigitRun(s, i))

RECURSIVE scan_value(_, _), scan_object(_, _), scan_members(_, _, _)
scan_value(s, i) ==
    IF i > Len(s) THEN JsonFail
    ELSE IF s[i] = "\"" THEN scan_string(s, i)
    ELSE IF s[i] = "{" THEN scan_object(s, i)
    ELSE IF IsDigit(s[i]) THEN scan_number(s, i)
    ELSE JsonFail

\* the members of an object from the key that starts at s[i]; a key given
\* again replaces the value it had
scan_members(s, i, d) ==
    IF i > Len(s) \/ s[i] # "\"" THEN JsonFail
    ELSE LET key == scan_string(s, i)
         IN IF ~key.ok THEN JsonFail
            ELSE LET c == skip_whitespace(s, key.end)
                 IN IF c > Len(s) \/ s[c] # ":" THEN JsonFail
                    ELSE LET val == scan_value(s, skip_whitespace(s, c + 1))
                         IN IF ~val.ok THEN JsonFail
                            ELSE LET n == skip_whitespace(s, val.end)
                                     d2 == SetItem(d, key.v.s, val.v)
                                 IN IF n > Len(s) THEN JsonFail
                                    ELSE IF s[n] = "}" THEN JsonOk(PyDict(d2), n + 1)
                                    ELSE IF s[n] = ","
                                         THEN scan_members(s, skip_whitespace(s, n + 1), d2)
                                    ELSE JsonFail

\* an object whose opening brace is s[i]
scan_object(s, i) ==
    LET n == skip_whitespace(s, i + 1)
    IN IF n > Len(s) THEN JsonFail
       ELSE IF s[n] = "}" THEN JsonOk(PyDict(<<>>), n + 1)
       ELSE scan_members(s, n, <<>>)

\* json.loads(s): one value, whitespace around it, and nothing else
json_loads(s) ==
    LET r == scan_value(s, skip_whitespace(s, 1))
    IN IF ~r.ok THEN JsonFail
       ELSE IF skip_whitespace(s, r.end) # Len(s) + 1 THEN JsonFail
       ELSE r

\* the f-string json_prompt
json_prompt(user_prompt) == user_prompt \o <<"{json_prompt:1}">>

\* what extract_json returns or raises after its generate call: a failure
\* of generate propagates; otherwise the decoded match of the brace pattern,
\* ValueError when the match is not JSON or there is no match
extract_json(generated) ==
    IF generated.kind = "raise" THEN generated
    ELSE LET json_match == re_search_braces(generated.value)
         IN IF json_match.matched
            THEN LET decoded == json_loads(json_match.group0)
                 IN IF decoded.ok THEN Return(decoded.v)
                    ELSE RaiseMsg("ValueError", "invalid JSON")
            ELSE RaiseMsg("ValueError", "no JSON object")

\* the f-string classification_prompt
classification_prompt(text, opts) ==
    <<"{classification_prompt:1}">> \o join_options(opts)
        \o <<"{classification_prompt:2}">> \o text \o <<"{classification_prompt:3}">>

\* classify falling back to the cleaned response instead of options[0]
classify_fallback_response(opts, generated) ==
    IF generated.kind = "raise" THEN generated
    ELSE LET response_clean == strip(generated.value)
             hits == {i \in 1..Len(opts) : Contains(lower(response_clean), lower(opts[i]))}
         IN IF hits # {} THEN Return(opts[CHOOSE i \in hits : \A j \in hits : i <= j])
            ELSE Return(response_clean)

\* classify preferring the longest option that matches
classify_longest_match(opts, generated) ==
    IF generated.kind = "raise" THEN generated
    ELSE LET response_clean == strip(generated.value)
             hits == {i \in 1..Len(opts) : Contains(lower(response_clean), lower(opts[i]))}
         IN IF hits # {}
            THEN Return(opts[CHOOSE i \in hits :
                                 \A j \in hits : \/ Len(opts[j]) < Len(opts[i])
                                                 \/ Len(opts[j]) = Len(opts[i]) /\ i <= j])
            ELSE IF opts = <<>> THEN Raise("IndexError")
            ELSE Return(opts[1])

\* what classify returns or raises after its generate call: a failure of
\* generate propagates; otherwise the first option, in list order, found in
\* the cleaned response, and options[0] when there is none
classify(opts, generated) ==
    IF generated.kind = "raise" THEN generated
    ELSE LET response_clean == strip(generated.value)
             hits == {i \in 1..Len(opts) : Contains(lower(response_clean), lower(opts[i]))}
         IN IF hits # {} THEN Return(opts[CHOOSE i \in hits : \A j \in hits : i <= j])
            ELSE IF opts = <<>> THEN Raise("IndexError")
            ELSE Return(opts[1])

RuleIdle ==
    /\ rule_string = <<>>
    /\ ai_data_dict = <<>>
    /\ op = "none"
    /\ parsed_rules = <<>>
    /\ path_parts = <<>>
    /\ path = <<>>
    /\ dynamic_prompt = <<>>

\* before LocalLlamaLLM(model_path) is called, with the options and the
\* system prompt of the calls to come
LLMInit ==
    /\ llm = "None"
    /\ options \in OptionLists
    /\ prompt = <<>>
    /\ system_prompt \in SystemPrompts
    /\ messages = <<>>
    /\ response = NoResponse
    /\ backend_calls = 0
    /\ llm_op = "none"
    /\ llm_result = NoResult

\* __init__ returning an instance whose model failed to load
LoadModel_swallow_failure ==
    /\ llm_op = "none"
    /\ llm_op' = "__init__"
    /\ \E outcome \in {"loaded", "ImportError", "RuntimeError"} :
           IF outcome = "loaded"
           THEN llm' = "Llama" /\ llm_result' = Return(<<>>)
           ELSE llm' = "None" /\ llm_result' = Return(<<>>)
    /\ UNCHANGED <<options, prompt, system_prompt, messages, response, backend_calls>>
    /\ UNCHANGED <<rule_vars, parser_vars, pdf_vars, gui_vars>>

\* LocalLlamaLLM.__init__: _load_model sets the handle, or raises when
\* llama_cpp is missing (ImportError) or the load fails (RuntimeError)
LoadModel ==
    /\ llm_op = "none"
    /\ llm_op' = "__init__"
    /\ \E outcome \in {"loaded", "ImportError", "RuntimeError"} :
           IF outcome = "loaded"
           THEN llm' = "Llama" /\ llm_result' = Return(<<>>)
           ELSE llm' = "None" /\ llm_result' = Raise(outcome)
    /\ UNCHANGED <<options, prompt, system_prompt, messages, response, backend_calls>>
    /\ UNCHANGED <<rule_vars, parser_vars, pdf_vars, gui_vars>>

\* is_available()
is_available == llm # "None"

\* generate calling the backend a second time when the first call raises
BackendCall_retry(user_prompt, sp, backend) ==
    IF llm = "None"
    THEN backend_calls' = 0 /\ UNCHANGED <<messages, response>>
    ELSE /\ backend_calls' = IF backend.raises THEN 2 ELSE 1
         /\ messages' = build_messages(user_prompt, sp)
         /\ response' = IF backend.raises THEN NoResponse
                        ELSE [got |-> TRUE, text |-> backend.text]

\* the backend call of generate: made once, and only when the model is
\* loaded, with a message list built for this call
BackendCall(user_prompt, sp, backend) ==
    IF llm = "None"
    THEN backend_calls' = 0 /\ UNCHANGED <<messages, response>>
    ELSE /\ backend_calls' = 1
         /\ messages' = build_messages(user_prompt, sp)
         /\ response' = IF backend.raises THEN NoResponse
                        ELSE [got |-> TRUE, text |-> backend.text]

\* a call generate(prompt, system_prompt)
Generate ==
    /\ Constructed
    /\ llm_op' = "generate"
    /\ prompt' \in Prompts
    /\ \E backend \in BackendOutcomes(Responses) :
           /\ BackendCall(prompt', system_prompt, backend)
           /\ llm_result' = generate(backend)
    /\ UNCHANGED <<llm, options, system_prompt>>
    /\ UNCHANGED <<rule_vars, parser_vars, pdf_vars, gui_vars>>

\* a call classify(prompt, options, system_prompt)
Classify ==
    /\ Constructed
    /\ llm_op' = "classify"
    /\ prompt' \in Prompts
    /\ \E backend \in BackendOutcomes(Responses) :
           /\ BackendCall(classification_prompt(prompt', options), system_prompt, backend)
           /\ llm_result' = classify(options, generate(backend))
    /\ UNCHANGED <<llm, options, system_prompt>>
    /\ UNCHANGED <<rule_vars, parser_vars, pdf_vars, gui_vars>>

\* a call extract_json(prompt, system_prompt)
ExtractJson ==
    /\ Constructed
    /\ llm_op' = "extract_json"
    /\ prompt' \in Prompts
    /\ \E backend \in BackendOutcomes(JsonResponses) :
           /\ BackendCall(json_prompt(prompt'), system_prompt, backend)
           /\ llm_result' = extract_json(generate(backend))
    /\ UNCHANGED <<llm, options, system_prompt>>
    /\ UNCHANGED <<rule_vars, parser_vars, pdf_vars, gui_vars>>

NextLLM == LoadModel \/ Generate \/ Classify \/ ExtractJson

InitLLM == LLMInit /\ RuleIdle /\ ParserIdle /\ PdfIdle /\ GuiIdle

SpecLLM == InitLLM /\ [][NextLLM]_vars

(***************************************************************************)
(* The parser registry: ParserFactory (core/parsers/__init__.py), and the  *)
(* construction of a parser (core/parsers/base.py).  The registry is a     *)
(* dict, held as the sequence of its items in insertion order.             *)
(***************************************************************************)
\* ParserFactory._parsers as the class body leaves it
BuiltinParsers ==
    << [key |-> <<".", "p", "d", "f">>, value |-> "PDFParser"],
       [key |-> <<".", "d", "o", "c", "x">>, value |-> "DOCXParser"],
       [key |-> <<".", "d", "o", "c">>, value |-> "DOCXParser"],
       [key |-> <<".", "x", "l", "s", "x">>, value |-> "ExcelParser"],
       [key |-> <<".", "x", "l", "s">>, value |-> "ExcelParser"],
       [key |-> <<".", "c", "s", "v">>, value |-> "ExcelParser"],
       [key |-> <<".", "p", "p", "t", "x">>, value |-> "PPTXParser"],
       [key |-> <<".", "p", "p", "t">>, value |-> "PPTXParser"],
       [key |-> <<".", "t", "x", "t">>, value |-> "TextParser"],
       [key |-> <<".", "m", "d">>, value |-> "TextParser"],
       [key |-> <<".", "p", "y">>, value |-> "TextParser"],
       [key |-> <<".", "j", "s">>, value |-> "TextParser"],
       [key |-> <<".", "j", "a", "v", "a">>, value |-> "TextParser"],
       [key |-> <<".", "c", "p", "p">>, value |-> "TextParser"],
       [key |-> <<".", "c">>, value |-> "TextParser"],
       [key |-> <<".", "h">>, value |-> "TextParser"],
       [key |-> <<".", "j", "s", "o", "n">>, value |-> "TextParser"],
       [key |-> <<".", "x", "m", "l">>, value |-> "TextParser"],
       [key |-> <<".", "h", "t", "m", "l">>, value |-> "TextParser"],
       [key |-> <<".", "c", "s", "s">>, value |-> "TextParser"] >>

\* the classes that inherit from BaseParser: the built-in ones and the
\* CustomParser of the tests, a concrete subclass with the inherited __init__
ParserSubclasses ==
    {"PDFParser", "DOCXParser", "ExcelParser", "PPTXParser", "TextParser", "CustomParser"}

issubclass(class) == class \in ParserSubclasses

\* the classes register_parser is given: a new parser, a built-in one, and a
\* class that is not a parser
RegisterClasses == {"CustomParser", "TextParser", "dict"}

\* the extensions register_parser is given: a built-in one, the same in
\* upper case, and a new one
RegisterExtensions ==
    { <<".", "p", "d", "f">>, <<".", "P", "D", "F">>,
      <<".", "C", "u", "s", "t", "o", "m">> }

\* the paths get_parser is given: bound extensions in both cases, an
\* unbound one, a new one after two dots, a dot in the directory only, a
\* leading dot only, a trailing dot, no dot
FilePaths ==
    { <<"a", ".", "p", "d", "f">>, <<"a", ".", "P", "D", "F">>,
      <<"a", ".", "z", "z", "z">>, <<"a", ".", "b", ".", "C", "u", "s", "t", "o", "m">>,
      <<"d", ".", "t", "x", "t", "/", "a">>, <<".", "p", "d", "f">>,
      <<"a", ".">>, <<"a">> }

dict_index(d, k) == {i \in 1..Len(d) : d[i].key = k}

\* k in d
dict_has(d, k) == dict_index(d, k) # {}

\* d[k]
dict_get(d, k) == d[CHOOSE i \in dict_index(d, k) : TRUE].value

\* d[k] = v: the value of a key already there is replaced in place, a new
\* key is appended
dict_set(d, k, v) ==
    IF dict_has(d, k)
    THEN [i \in 1..Len(d) |-> IF d[i].key = k THEN [key |-> k, value |-> v] ELSE d[i]]
    ELSE Append(d, [key |-> k, value |-> v])

\* list(d.keys())
dict_keys(d) == [i \in 1..Len(d) |-> d[i].key]

\* Path(p).name, for a path that pathlib keeps as written (no trailing or
\* doubled '/', no '.' component): what follows the last '/'
PathName(p) ==
    LET slashes == {i \in 1..Len(p) : p[i] = "/"}
    IN IF slashes = {} THEN p
       ELSE SubSeq(p, (CHOOSE i \in slashes : \A j \in slashes : i >= j) + 1, Len(p))

\* Path(p).suffix: the name from its last '.', when that dot is neither the
\* first nor the last character of the name
suffix(p) ==
    LET name == PathName(p)
        dots == {i \in 1..Len(name) : name[i] = "."}
    IN IF dots = {} THEN <<>>
       ELSE LET i == CHOOSE x \in dots : \A y \in dots : x >= y
            IN IF 1 < i /\ i < Len(name) THEN SubSeq(name, i, Len(name)) ELSE <<>>

\* parser_class(file_path): BaseParser.__init__ raises when the path does
\* not exist
construct(class, p, exists) ==
    IF ~exists THEN Raise("FileNotFoundError")
    ELSE Return([class |-> class, file_path |-> p])

\* get_parser looking the extension up as written
get_parser_as_written(parsers, p, exists) ==
    LET ext == suffix(p)
    IN IF ~dict_has(parsers, ext) THEN Raise("ValueError")
       ELSE construct(dict_get(parsers, ext), p, exists)

\* what get_parser returns or raises
get_parser(parsers, p, exists) ==
    LET ext == lower(suffix(p))
    IN IF ~dict_has(parsers, ext) THEN Raise("ValueError")
       ELSE construct(dict_get(parsers, ext), p, exists)

\* register_parser storing the extension as written
register_parser_as_written(parsers, ext, class) ==
    IF ~issubclass(class) THEN [parsers |-> parsers, result |-> Raise("TypeError")]
    ELSE [parsers |-> dict_set(parsers, ext, class), result |-> Return(<<>>)]

\* the registry after register_parser, and what the call returns or raises
register_parser(parsers, ext, class) ==
    IF ~issubclass(class) THEN [parsers |-> parsers, result |-> Raise("TypeError")]
    ELSE [parsers |-> dict_set(parsers, lower(ext), class), result |-> Return(<<>>)]

\* no parser was made, and no extraction is under way
NoParser == "None"
NoBackends == [primary |-> "none", alternate |-> "none"]

FactoryInit ==
    /\ _parsers = BuiltinParsers
    /\ file_path = <<>>
    /\ path_exists = FALSE
    /\ parser_class = "None"
    /\ extension = <<>>
    /\ parser = NoParser
    /\ backends = NoBackends
    /\ max_length = 0
    /\ document_text = <<>>
    /\ parser_op = "none"
    /\ parser_result = NoResult

\* a call ParserFactory.register_parser(extension, parser_class)
RegisterParser ==
    /\ parser_op' = "register_parser"
    /\ extension' \in RegisterExtensions
    /\ parser_class' \in RegisterClasses
    /\ LET r == register_parser(_parsers, extension', parser_class')
       IN _parsers' = r.parsers /\ parser_result' = r.result
    /\ UNCHANGED <<file_path, path_exists, parser, backends, max_length, document_text>>
    /\ UNCHANGED <<rule_vars, llm_vars, pdf_vars, gui_vars>>

\* a call ParserFactory.get_parser(file_path), the path existing or not
GetParser ==
    /\ parser_op' = "get_parser"
    /\ file_path' \in FilePaths
    /\ path_exists' \in BOOLEAN
    /\ parser_result' = get_parser(_parsers, file_path', path_exists')
    /\ parser' = IF parser_result'.kind = "return" THEN parser_result'.value ELSE NoParser
    /\ UNCHANGED <<_parsers, parser_class, extension, backends, max_length, document_text>>
    /\ UNCHANGED <<rule_vars, llm_vars, pdf_vars, gui_vars>>

\* a call ParserFactory.get_supported_extensions()
GetSupportedExtensions ==
    /\ parser_op' = "get_supported_extensions"
    /\ parser_result' = Return(dict_keys(_parsers))
    /\ UNCHANGED <<_parsers, file_path, path_exists, parser_class, extension, parser,
                   backends, max_length, document_text>>
    /\ UNCHANGED <<rule_vars, llm_vars, pdf_vars, gui_vars>>

NextFactory == RegisterParser \/ GetParser \/ GetSupportedExtensions

InitFactory == FactoryInit /\ RuleIdle /\ LLMIdle /\ PdfIdle /\ GuiIdle

SpecFactory == InitFactory /\ [][NextFactory]_vars

(***************************************************************************)
(* The parsers' extract_text and BaseParser.extract_summary.  What a       *)
(* library does is the environment's choice: it is not installed (its      *)
(* import raises ImportError), it extracts the document's text, or it      *)
(* raises.                                                                 *)
(***************************************************************************)
\* the length of the longest document text
MaxTextLength == 4
\* the largest max_length given to extract_summary
MaxLength == 3
\* the default of max_length
DefaultMaxLength == 500

\* str(e) of the exception a library raises
ErrorText == <<"E">>

pdf_not_installed ==
    <<"[", "P", "D", "F", " ", "u89E3", "u6790", "u5668", "]", " ", "u65E0",
      "u6CD5", "u63D0", "u53D6", "u6587", "u672C", "uFF1A", "p", "y", "m",
      "u", "p", "d", "f", " ", "u6216", " ", "P", "y", "P", "D", "F", "2",
      " ", "u672A", "u5B89", "u88C5", "u3002", "\n", "u6587", "u4EF6", "uFF1A">>

pdf_error ==
    <<"[", "P", "D", "F", " ", "u89E3", "u6790", "u5668", "]", " ", "u63D0",
      "u53D6", "u6587", "u672C", "u51FA", "u9519", "uFF1A">>

excel_not_installed ==
    <<"[", "E", "x", "c", "e", "l", " ", "P", "a", "r", "s", "e", "r", "]",
      " ", "C", "a", "n", "n", "o", "t", " ", "e", "x", "t", "r", "a", "c",
      "t", " ", "t", "e", "x", "t", ":", " ", "o", "p", "e", "n", "p", "y",
      "x", "l", " ", "o", "r", " ", "p", "a", "n", "d", "a", "s", " ", "n",
      "o", "t", " ", "i", "n", "s", "t", "a", "l", "l", "e", "d", ".", "\n",
      "F", "i", "l", "e", ":", " ">>

excel_error ==
    <<"[", "E", "x", "c", "e", "l", " ", "P", "a", "r", "s", "e", "r", "]",
      " ", "E", "r", "r", "o", "r", " ", "e", "x", "t", "r", "a", "c", "t",
      "i", "n", "g", " ", "t", "e", "x", "t", ":", " ">>

pptx_not_installed ==
    <<"[", "P", "P", "T", "X", " ", "P", "a", "r", "s", "e", "r", "]", " ",
      "u65E0", "u6CD5", "u63D0", "u53D6", "u6587", "u672C", "uFF1A", "p",
      "y", "t", "h", "o", "n", "-", "p", "p", "t", "x", " ", "u672A",
      "u5B89", "u88C5", "u3002", "\n", "u6587", "u4EF6", "uFF1A">>

pptx_error ==
    <<"[", "P", "P", "T", "X", " ", "P", "a", "r", "s", "e", "r", "]", " ",
      "u63D0", "u53D6", "u6587", "u672C", "u51FA", "u9519", "uFF1A">>

docx_not_installed ==
    <<"[", "D", "O", "C", "X", " ", "P", "a", "r", "s", "e", "r", "]", " ",
      "C", "a", "n", "n", "o", "t", " ", "e", "x", "t", "r", "a", "c", "t",
      " ", "t", "e", "x", "t", ":", " ", "p", "y", "t", "h", "o", "n", "-",
      "d", "o", "c", "x", " ", "n", "o", "t", " ", "i", "n", "s", "t", "a",
      "l", "l", "e", "d", ".", "\n", "F", "i", "l", "e", ":", " ">>

docx_error ==
    <<"[", "D", "O", "C", "X", " ", "P", "a", "r", "s", "e", "r", "]", " ",
      "E", "r", "r", "o", "r", " ", "e", "x", "t", "r", "a", "c", "t", "i",
      "n", "g", " ", "t", "e", "x", "t", ":", " ">>

text_error ==
    <<"[", "u6587", "u672C", "u89E3", "u6790", "u5668", "]", " ", "u8BFB",
      "u53D6", "u6587", "u4EF6", "u51FA", "u9519", "uFF1A">>

file_zh ==
    <<"\n", "u6587", "u4EF6", "uFF1A">>

file_en ==
    <<"\n", "F", "i", "l", "e", ":", " ">>

\* a try whose 'except ImportError' handler holds a second try that handles
\* only ImportError: what the alternate library raises inside that handler
\* is handled neither there nor by the first try's 'except Exception'
try_two_libraries(env, extracted, not_installed, error) ==
    IF env.primary = "ok" THEN Return(extracted)
    ELSE IF env.primary = "raises" THEN Return(error)
    ELSE IF env.alternate = "ok" THEN Return(extracted)
    ELSE IF env.alternate = "raises" THEN Raise("Exception")
    ELSE Return(not_installed)

\* a try with an 'except ImportError' and an 'except Exception' handler
try_one_library(env, extracted, not_installed, error) ==
    IF env.primary = "ok" THEN Return(extracted)
    ELSE IF env.primary = "raises" THEN Return(error)
    ELSE Return(not_installed)

\* PDFParser.extract_text: PyMuPDF, and PyPDF2 when PyMuPDF is missing
PDFParser_extract_text(self, env, extracted) ==
    try_two_libraries(env, extracted,
                      pdf_not_installed \o PathName(self.file_path),
                      pdf_error \o ErrorText \o file_zh \o PathName(self.file_path))

\* ExcelParser.extract_text: openpyxl, and pandas when openpyxl is missing
ExcelParser_extract_text(self, env, extracted) ==
    try_two_libraries(env, extracted,
                      excel_not_installed \o PathName(self.file_path),
                      excel_error \o ErrorText \o file_en \o PathName(self.file_path))

\* PPTXParser.extract_text: python-pptx
PPTXParser_extract_text(self, env, extracted) ==
    try_one_library(env, extracted,
                    pptx_not_installed \o PathName(self.file_path),
                    pptx_error \o ErrorText \o file_zh \o PathName(self.file_path))

\* DOCXParser.extract_text: python-docx
DOCXParser_extract_text(self, env, extracted) ==
    try_one_library(env, extracted,
                    docx_not_installed \o PathName(self.file_path),
                    docx_error \o ErrorText \o file_en \o PathName(self.file_path))

\* TextParser.extract_text: open() and read() under the first encoding that
\* decodes the file (latin-1 decodes every file), or open() raises
TextParser_extract_text(self, env, extracted) ==
    IF env.primary = "ok" THEN Return(extracted)
    ELSE Return(text_error \o ErrorText \o file_zh \o PathName(self.file_path))

\* self.extract_text()
extract_text(self, env, extracted) ==
    CASE self.class = "PDFParser" -> PDFParser_extract_text(self, env, extracted)
      [] self.class = "ExcelParser" -> ExcelParser_extract_text(self, env, extracted)
      [] self.class = "PPTXParser" -> PPTXParser_extract_text(self, env, extracted)
      [] self.class = "DOCXParser" -> DOCXParser_extract_text(self, env, extracted)
      [] self.class = "TextParser" -> TextParser_extract_text(self, env, extracted)

\* text[:n] for n >= 0
slice_to(s, n) == SubSeq(s, 1, IF n < Len(s) THEN n ELSE Len(s))

\* extract_summary cutting at max_length without the marker
extract_summary_no_marker(extracted, n) ==
    IF extracted.kind = "raise" THEN extracted
    ELSE IF Len(extracted.value) <= n THEN extracted
    ELSE Return(slice_to(extracted.value, n))

\* what extract_summary returns or raises after its extract_text call
extract_summary(extracted, n) ==
    IF extracted.kind = "raise" THEN extracted
    ELSE IF Len(extracted.value) <= n THEN extracted
    ELSE Return(slice_to(extracted.value, n) \o <<".", ".", ".">>)

\* a parser of each built-in class, made by get_parser for an existing file
ParserInstances ==
    { [class |-> "PDFParser", file_path |-> <<"a", ".", "p", "d", "f">>],
      [class |-> "ExcelParser", file_path |-> <<"d", "/", "a", ".", "c", "s", "v">>],
      [class |-> "PPTXParser", file_path |-> <<"a", ".", "p", "p", "t", "x">>],
      [class |-> "DOCXParser", file_path |-> <<"a", ".", "d", "o", "c">>],
      [class |-> "TextParser", file_path |-> <<"a", ".", "m", "d">>] }

\* the text of a document of n characters
TextOfLength(n) == [i \in 1..n |-> IF i % 3 = 0 THEN "." ELSE "a"]

DocumentTexts == {TextOfLength(n) : n \in 0..MaxTextLength}

LibraryStates == {"missing", "ok", "raises"}

\* what the libraries of a parser class may do
BackendStates(class) ==
    IF class \in {"PDFParser", "ExcelParser"}
    THEN [primary : LibraryStates, alternate : LibraryStates]
    ELSE IF class \in {"PPTXParser", "DOCXParser"}
    THEN [primary : LibraryStates, alternate : {"none"}]
    ELSE [primary : {"ok", "raises"}, alternate : {"none"}]

\* a parser made for an existing file, a document and its libraries
ParserInit ==
    /\ _parsers = BuiltinParsers
    /\ parser \in ParserInstances
    /\ file_path = parser.file_path
    /\ path_exists = TRUE
    /\ parser_class = "None"
    /\ extension = <<>>
    /\ backends \in BackendStates(parser.class)
    /\ max_length = 0
    /\ document_text \in DocumentTexts
    /\ parser_op = "none"
    /\ parser_result = NoResult

\* a call parser.extract_text()
ExtractText ==
    /\ parser_op' = "extract_text"
    /\ parser_result' = extract_text(parser, backends, document_text)
    /\ UNCHANGED <<_parsers, file_path, path_exists, parser_class, extension, parser,
                   backends, max_length, document_text>>
    /\ UNCHANGED <<rule_vars, llm_vars, pdf_vars, gui_vars>>

\* a call parser.extract_summary(max_length), or parser.extract_summary()
ExtractSummary ==
    /\ parser_op' = "extract_summary"
    /\ max_length' \in (0..MaxLength) \cup {DefaultMaxLength}
    /\ parser_result' = extract_summary(extract_text(parser, backends, document_text),
                                        max_length')
    /\ UNCHANGED <<_parsers, file_path, path_exists, parser_class, extension, parser,
                   backends, document_text>>
    /\ UNCHANGED <<rule_vars, llm_vars, pdf_vars, gui_vars>>

NextParser == ExtractText \/ ExtractSummary

InitParser == ParserInit /\ RuleIdle /\ LLMIdle /\ PdfIdle /\ GuiIdle

SpecParser == InitParser /\ [][NextParser]_vars

(***************************************************************************)
(* The prompt builder: build_dynamic_prompt (core/ai_engine.py).           *)
(***************************************************************************)
\* the characters of SYSTEM_PROMPT
SYSTEM_PROMPT ==
    <<"Y", "o", "u", " ", "a", "r", "e", " ", "a", " ", "p", "r", "o", "f",
      "e", "s", "s", "i", "o", "n", "a", "l", " ", "f", "i", "l", "e", " ",
      "c", "l", "a", "s", "s", "i", "f", "i", "c", "a", "t", "i", "o", "n",
      " ", "a", "s", "s", "i", "s", "t", "a", "n", "t", ".", " ", "Y", "o",
      "u", "r", " ", "t", "a", "s", "k", " ", "i", "s", " ", "t", "o", " ",
      "a", "n", "a", "l", "y", "z", "e", " ", "f", "i", "l", "e", " ", "n",
      "a", "m", "e", "s", " ", "a", "n", "d", " ", "e", "x", "t", "r", "a",
      "c", "t", " ", "s", "t", "r", "u", "c", "t", "u", "r", "e", "d", " ",
      "i", "n", "f", "o", "r", "m", "a", "t", "i", "o", "n", ".", "\n", "\n",
      "Y", "o", "u", " ", "m", "u", "s", "t", " ", "A", "L", "W", "A", "Y",
      "S", " ", "r", "e", "t", "u", "r", "n", " ", "a", " ", "v", "a", "l",
      "i", "d", " ", "J", "S", "O", "N", " ", "o", "b", "j", "e", "c", "t",
      " ", "w", "i", "t", "h", " ", "t", "h", "e", " ", "f", "o", "l", "l",
      "o", "w", "i", "n", "g", " ", "f", "i", "e", "l", "d", "s", ":", "\n",
      "-", " ", "c", "a", "t", "e", "g", "o", "r", "y", ":", " ", "T", "h",
      "e", " ", "c", "a", "t", "e", "g", "o", "r", "y", "/", "t", "y", "p",
      "e", " ", "o", "f", " ", "t", "h", "e", " ", "f", "i", "l", "e", " ",
      "(", "e", ".", "g", ".", ",", " ", "\"", "W", "o", "r", "k", "\"", ",",
      " ", "\"", "P", "e", "r", "s", "o", "n", "a", "l", "\"", ",", " ",
      "\"", "S", "t", "u", "d", "y", "\"", ",", " ", "\"", "F", "i", "n",
      "a", "n", "c", "e", "\"", ",", " ", "e", "t", "c", ".", ")", "\n", "-",
      " ", "y", "e", "a", "r", ":", " ", "T", "h", "e", " ", "y", "e", "a",
      "r", " ", "a", "s", "s", "o", "c", "i", "a", "t", "e", "d", " ", "w",
      "i", "t", "h", " ", "t", "h", "e", " ", "f", "i", "l", "e", " ", "(",
      "4", "-", "d", "i", "g", "i", "t", " ", "f", "o", "r", "m", "a", "t",
      ",", " ", "e", ".", "g", ".", ",", " ", "\"", "2", "0", "2", "4", "\"",
      ")", "\n", "-", " ", "m", "o", "n", "t", "h", ":", " ", "T", "h", "e",
      " ", "m", "o", "n", "t", "h", " ", "a", "s", "s", "o", "c", "i", "a",
      "t", "e", "d", " ", "w", "i", "t", "h", " ", "t", "h", "e", " ", "f",
      "i", "l", "e", " ", "(", "2", "-", "d", "i", "g", "i", "t", " ", "f",
      "o", "r", "m", "a", "t", ",", " ", "e", ".", "g", ".", ",", " ", "\"",
      "0", "1", "\"", ",", " ", "\"", "1", "2", "\"", ")", "\n", "-", " ",
      "s", "u", "m", "m", "a", "r", "y", ":", " ", "A", " ", "b", "r", "i",
      "e", "f", " ", "s", "u", "m", "m", "a", "r", "y", " ", "o", "r", " ",
      "d", "e", "s", "c", "r", "i", "p", "t", "i", "o", "n", " ", "o", "f",
      " ", "t", "h", "e", " ", "f", "i", "l", "e", " ", "c", "o", "n", "t",
      "e", "n", "t", "\n", "-", " ", "o", "r", "i", "g", "i", "n", "a", "l",
      "_", "n", "a", "m", "e", ":", " ", "T", "h", "e", " ", "o", "r", "i",
      "g", "i", "n", "a", "l", " ", "f", "i", "l", "e", " ", "n", "a", "m",
      "e", " ", "w", "i", "t", "h", "o", "u", "t", " ", "e", "x", "t", "e",
      "n", "s", "i", "o", "n", "\n", "\n", "R", "u", "l", "e", "s", ":",
      "\n", "1", ".", " ", "I", "f", " ", "y", "o", "u", " ", "c", "a", "n",
      "n", "o", "t", " ", "d", "e", "t", "e", "r", "m", "i", "n", "e", " ",
      "a", " ", "f", "i", "e", "l", "d", ",", " ", "u", "s", "e", " ", "\"",
      "U", "n", "k", "n", "o", "w", "n", "\"", " ", "a", "s", " ", "t", "h",
      "e", " ", "v", "a", "l", "u", "e", ".", "\n", "2", ".", " ", "F", "o",
      "r", " ", "y", "e", "a", "r", ":", " ", "T", "r", "y", " ", "t", "o",
      " ", "e", "x", "t", "r", "a", "c", "t", " ", "f", "r", "o", "m", " ",
      "f", "i", "l", "e", " ", "n", "a", "m", "e", ",", " ", "i", "f", " ",
      "n", "o", "t", " ", "f", "o", "u", "n", "d", ",", " ", "u", "s", "e",
      " ", "c", "u", "r", "r", "e", "n", "t", " ", "y", "e", "a", "r", ".",
      "\n", "3", ".", " ", "F", "o", "r", " ", "m", "o", "n", "t", "h", ":",
      " ", "T", "r", "y", " ", "t", "o", " ", "e", "x", "t", "r", "a", "c",
      "t", " ", "f", "r", "o", "m", " ", "f", "i", "l", "e", " ", "n", "a",
      "m", "e", ",", " ", "i", "f", " ", "n", "o", "t", " ", "f", "o", "u",
      "n", "d", ",", " ", "u", "s", "e", " ", "\"", "U", "n", "k", "n", "o",
      "w", "n", "\"", ".", "\n", "4", ".", " ", "F", "o", "r", " ", "c", "a",
      "t", "e", "g", "o", "r", "y", ":", " ", "I", "n", "f", "e", "r", " ",
      "f", "r", "o", "m", " ", "f", "i", "l", "e", " ", "n", "a", "m", "e",
      " ", "a", "n", "d", " ", "c", "o", "n", "t", "e", "x", "t", ".", " ",
      "C", "o", "m", "m", "o", "n", " ", "c", "a", "t", "e", "g", "o", "r",
      "i", "e", "s", ":", " ", "W", "o", "r", "k", ",", " ", "P", "e", "r",
      "s", "o", "n", "a", "l", ",", " ", "S", "t", "u", "d", "y", ",", " ",
      "F", "i", "n", "a", "n", "c", "e", ",", " ", "P", "h", "o", "t", "o",
      "s", ",", " ", "D", "o", "c", "u", "m", "e", "n", "t", "s", ",", " ",
      "C", "o", "n", "t", "r", "a", "c", "t", ",", " ", "R", "e", "p", "o",
      "r", "t", ",", " ", "I", "n", "v", "o", "i", "c", "e", ",", " ", "M",
      "a", "n", "u", "a", "l", ",", " ", "e", "t", "c", ".", "\n", "5", ".",
      " ", "F", "o", "r", " ", "C", "h", "i", "n", "e", "s", "e", " ", "f",
      "i", "l", "e", " ", "n", "a", "m", "e", "s", ",", " ", "u", "n", "d",
      "e", "r", "s", "t", "a", "n", "d", " ", "t", "h", "e", " ", "c", "o",
      "n", "t", "e", "x", "t", " ", "a", "n", "d", " ", "e", "x", "t", "r",
      "a", "c", "t", " ", "i", "n", "f", "o", "r", "m", "a", "t", "i", "o",
      "n", " ", "a", "c", "c", "o", "r", "d", "i", "n", "g", "l", "y", ".",
      "\n", " ", " ", " ", "-", " ", "u5DE5", "u4F5C", "/", "u4F1A", "u8BAE",
      "/", "u62A5", "u544A", " ", "u2192", " ", "W", "o", "r", "k", "\n",
      " ", " ", " ", "-", " ", "u8D22", "u52A1", "/", "u53D1", "u7968", "/",
      "u8D26", "u5355", " ", "u2192", " ", "F", "i", "n", "a", "n", "c", "e",
      "\n", " ", " ", " ", "-", " ", "u5408", "u540C", "/", "u534F", "u8BAE",
      " ", "u2192", " ", "C", "o", "n", "t", "r", "a", "c", "t", "\n", " ",
      " ", " ", "-", " ", "u4E2A", "u4EBA", "/", "u79C1", "u4EBA", " ",
      "u2192", " ", "P", "e", "r", "s", "o", "n", "a", "l", "\n", " ", " ",
      " ", "-", " ", "u5B66", "u4E60", "/", "u8BFE", "u7A0B", " ", "u2192",
      " ", "S", "t", "u", "d", "y", "\n", "6", ".", " ", "A", "l", "w", "a",
      "y", "s", " ", "r", "e", "t", "u", "r", "n", " ", "v", "a", "l", "i",
      "d", " ", "J", "S", "O", "N", " ", "f", "o", "r", "m", "a", "t", ".",
      "\n", "7", ".", " ", "F", "i", "e", "l", "d", " ", "n", "a", "m", "e",
      "s", " ", "m", "u", "s", "t", " ", "b", "e", " ", "i", "n", " ", "l",
      "o", "w", "e", "r", "c", "a", "s", "e", " ", "E", "n", "g", "l", "i",
      "s", "h", ".", "\n", "\n", "E", "x", "a", "m", "p", "l", "e", " ", "1",
      " ", "(", "C", "h", "i", "n", "e", "s", "e", " ", "f", "i", "l", "e",
      ")", ":", "\n", "I", "n", "p", "u", "t", ":", " ", "\"", "2", "0", "2",
      "4", "u5E74", "u5EA6", "u8D22", "u52A1", "u62A5", "u544A", "_", "Q",
      "1", ".", "p", "d", "f", "\"", "\n", "O", "u", "t", "p", "u", "t", ":",
      "\n", "{", "\n", " ", " ", " ", " ", "\"", "c", "a", "t", "e", "g",
      "o", "r", "y", "\"", ":", " ", "\"", "F", "i", "n", "a", "n", "c", "e",
      "\"", ",", "\n", " ", " ", " ", " ", "\"", "y", "e", "a", "r", "\"",
      ":", " ", "\"", "2", "0", "2", "4", "\"", ",", "\n", " ", " ", " ",
      " ", "\"", "m", "o", "n", "t", "h", "\"", ":", " ", "\"", "U", "n",
      "k", "n", "o", "w", "n", "\"", ",", "\n", " ", " ", " ", " ", "\"",
      "s", "u", "m", "m", "a", "r", "y", "\"", ":", " ", "\"", "Q", "1", " ",
      "F", "i", "n", "a", "n", "c", "i", "a", "l", " ", "R", "e", "p", "o",
      "r", "t", "\"", ",", "\n", " ", " ", " ", " ", "\"", "o", "r", "i",
      "g", "i", "n", "a", "l", "_", "n", "a", "m", "e", "\"", ":", " ", "\"",
      "2", "0", "2", "4", "u5E74", "u5EA6", "u8D22", "u52A1", "u62A5",
      "u544A", "_", "Q", "1", "\"", "\n", "}", "\n", "\n", "E", "x", "a",
      "m", "p", "l", "e", " ", "2", " ", "(", "E", "n", "g", "l", "i", "s",
      "h", " ", "f", "i", "l", "e", ")", ":", "\n", "I", "n", "p", "u", "t",
      ":", " ", "\"", "m", "e", "e", "t", "i", "n", "g", "_", "n", "o", "t",
      "e", "s", "_", "2", "0", "2", "3", "_", "1", "2", "_", "1", "5", ".",
      "d", "o", "c", "x", "\"", "\n", "O", "u", "t", "p", "u", "t", ":",
      "\n", "{", "\n", " ", " ", " ", " ", "\"", "c", "a", "t", "e", "g",
      "o", "r", "y", "\"", ":", " ", "\"", "W", "o", "r", "k", "\"", ",",
      "\n", " ", " ", " ", " ", "\"", "y", "e", "a", "r", "\"", ":", " ",
      "\"", "2", "0", "2", "3", "\"", ",", "\n", " ", " ", " ", " ", "\"",
      "m", "o", "n", "t", "h", "\"", ":", " ", "\"", "1", "2", "\"", ",",
      "\n", " ", " ", " ", " ", "\"", "s", "u", "m", "m", "a", "r", "y",
      "\"", ":", " ", "\"", "M", "e", "e", "t", "i", "n", "g", " ", "n", "o",
      "t", "e", "s", " ", "f", "r", "o", "m", " ", "D", "e", "c", "e", "m",
      "b", "e", "r", " ", "1", "5", "\"", ",", "\n", " ", " ", " ", " ",
      "\"", "o", "r", "i", "g", "i", "n", "a", "l", "_", "n", "a", "m", "e",
      "\"", ":", " ", "\"", "m", "e", "e", "t", "i", "n", "g", "_", "n", "o",
      "t", "e", "s", "_", "2", "0", "2", "3", "_", "1", "2", "_", "1", "5",
      "\"", "\n", "}", "\n", "\n", "E", "x", "a", "m", "p", "l", "e", " ",
      "3", " ", "(", "C", "h", "i", "n", "e", "s", "e", " ", "c", "o", "n",
      "t", "r", "a", "c", "t", ")", ":", "\n", "I", "n", "p", "u", "t", ":",
      " ", "\"", "u91C7", "u8D2D", "u5408", "u540C", "_", "2", "0", "2", "4",
      "_", "0", "3", ".", "p", "d", "f", "\"", "\n", "O", "u", "t", "p", "u",
      "t", ":", "\n", "{", "\n", " ", " ", " ", " ", "\"", "c", "a", "t",
      "e", "g", "o", "r", "y", "\"", ":", " ", "\"", "C", "o", "n", "t", "r",
      "a", "c", "t", "\"", ",", "\n", " ", " ", " ", " ", "\"", "y", "e",
      "a", "r", "\"", ":", " ", "\"", "2", "0", "2", "4", "\"", ",", "\n",
      " ", " ", " ", " ", "\"", "m", "o", "n", "t", "h", "\"", ":", " ",
      "\"", "0", "3", "\"", ",", "\n", " ", " ", " ", " ", "\"", "s", "u",
      "m", "m", "a", "r", "y", "\"", ":", " ", "\"", "P", "u", "r", "c", "h",
      "a", "s", "e", " ", "c", "o", "n", "t", "r", "a", "c", "t", "\"", ",",
      "\n", " ", " ", " ", " ", "\"", "o", "r", "i", "g", "i", "n", "a", "l",
      "_", "n", "a", "m", "e", "\"", ":", " ", "\"", "u91C7", "u8D2D",
      "u5408", "u540C", "_", "2", "0", "2", "4", "_", "0", "3", "\"", "\n",
      "}", "\n">>

\* the fixed text of a constraint: before the key, between the key's two
\* occurrences, between the key and the options, after the options
constraint_text_1 ==
    <<"\n", "\n", "'">>

constraint_text_2 ==
    <<"'", " ", "u5B57", "u6BB5", "u7684", "u91CD", "u8981", "u7EA6",
      "u675F", "uFF1A", "\n", "u5B57", "u6BB5", " ", "'">>

constraint_text_3 ==
    <<"'", " ", "u5FC5", "u987B", "u662F", "u4EE5", "u4E0B", "u503C",
      "u4E4B", "u4E00", "uFF1A">>

constraint_text_4 ==
    <<"u3002", "\n", "u5982", "u679C", "u4E0D", "u786E", "u5B9A", "uFF0C",
      "u8BF7", "u4ECE", "u8FD9", "u4E9B", "u9009", "u9879", "u4E2D", "u9009",
      "u62E9", "u6700", "u63A5", "u8FD1", "u7684", "u5339", "u914D", "u9879",
      "u3002", "u4E0D", "u8981", "u4F7F", "u7528", "u4EFB", "u4F55", "u5176",
      "u4ED6", "u503C", "u3002", "\n", "u8FD9", "u662F", "u4E00", "u4E2A",
      "u5206", "u7C7B", "u4EFB", "u52A1", "uFF08", "u591A", "u9009", "uFF09",
      "uFF0C", "u800C", "u4E0D", "u662F", "u5F00", "u653E", "u5F0F", "u751F",
      "u6210", "u3002">>

\* the f-string constraint, built by four +=
constraint(field_key, options_str) ==
    constraint_text_1 \o field_key \o constraint_text_2 \o field_key
        \o constraint_text_3 \o options_str \o constraint_text_4

\* the constraints list after the loop over parsed_rules: one constraint for
\* each rule whose options is a non-empty list
RECURSIVE constraints_not_none(_)
constraints_not_none(rules) ==
    IF rules = <<>> THEN <<>>
    ELSE LET rule == Head(rules)
         IN (IF ~rule.options.none
             THEN <<constraint(rule.key, join_options(rule.options.list))>>
             ELSE <<>>) \o constraints_not_none(Tail(rules))

RECURSIVE constraints_of(_)
constraints_of(rules) ==
    IF rules = <<>> THEN <<>>
    ELSE LET rule == Head(rules)
         IN (IF ~rule.options.none /\ Len(rule.options.list) > 0
             THEN <<constraint(rule.key, join_options(rule.options.list))>>
             ELSE <<>>) \o constraints_of(Tail(rules))

\* '\n'.join(items)
RECURSIVE join_lines(_)
join_lines(items) ==
    IF items = <<>> THEN <<>>
    ELSE IF Len(items) = 1 THEN items[1]
    ELSE items[1] \o <<"\n">> \o join_lines(Tail(items))

\* build_dynamic_prompt adding a constraint for every rule whose options is
\* not None, an empty list included
build_dynamic_prompt_not_none(rules) ==
    LET constraints == constraints_not_none(rules)
    IN IF constraints # <<>>
       THEN SYSTEM_PROMPT \o <<"\n">> \o join_lines(constraints)
       ELSE SYSTEM_PROMPT

build_dynamic_prompt(rules) ==
    LET constraints == constraints_of(rules)
    IN IF constraints # <<>>
       THEN SYSTEM_PROMPT \o <<"\n">> \o join_lines(constraints)
       ELSE SYSTEM_PROMPT

\* the instruction whose chain test_build_dynamic_prompt gives the builder
TestInstruction ==
    <<"C", "a", "t", "e", "g", "o", "r", "y", " ", "[", "C", "o", "n", "t",
      "r", "a", "c", "t", ",", " ", "I", "n", "v", "o", "i", "c", "e", ",",
      " ", "M", "a", "n", "u", "a", "l", "]", " ", ">", ">", " ", "Y", "e",
      "a", "r">>

PromptInit ==
    /\ rule_string \in Instructions \cup {TestInstruction}
    /\ ai_data_dict = <<>>
    /\ op = "none"
    /\ parsed_rules = <<>>
    /\ path_parts = <<>>
    /\ path = <<>>
    /\ dynamic_prompt = <<>>

\* a call build_dynamic_prompt(parsed_rules) on a parsed chain
BuildDynamicPrompt ==
    /\ op = "parse_rule_string"
    /\ op' = "build_dynamic_prompt"
    /\ dynamic_prompt' = build_dynamic_prompt(parsed_rules)
    /\ UNCHANGED <<rule_string, ai_data_dict, parsed_rules, path_parts, path>>
    /\ UNCHANGED <<llm_vars, parser_vars, pdf_vars, gui_vars>>

NextPrompt == ParseRuleString \/ BuildDynamicPrompt

InitPrompt == PromptInit /\ LLMIdle /\ ParserIdle /\ PdfIdle /\ GuiIdle

SpecPrompt == InitPrompt /\ [][NextPrompt]_vars

(***************************************************************************)
(* PDF hybrid extraction (core/parsers/pdf_parser.py): the sampling pass,  *)
(* the escalation to OCR with the engine shared by all PDFParser           *)
(* instances, and the tail pages.  A page is what PyMuPDF extracts from it *)
(* (text) and what the OCR engine recognizes on its image (lines).         *)
(***************************************************************************)
MaxPages == 8
MaxEscalations == 2

MIN_TEXT_LENGTH == 50
MAX_OCR_PAGES == 7
SAMPLE_PAGES == 5

Min(a, b) == IF a < b THEN a ELSE b

\* range(start, stop), as the sequence of its values
range(start, stop) == [k \in 1..(IF stop > start THEN stop - start ELSE 0) |-> start + k - 1]

\* sep.join(items)
RECURSIVE join(_, _)
join(sep_, items) ==
    IF items = <<>> THEN <<>>
    ELSE IF Len(items) = 1 THEN items[1]
    ELSE items[1] \o sep_ \o join(sep_, Tail(items))

\* doc[page_num].get_text()
get_text(doc, page_num) == doc[page_num + 1].text

\* the page numbers of the sampling pass
sample_range(total_pages) == range(0, Min(SAMPLE_PAGES, total_pages))

\* the page numbers the loop of _extract_with_ocr is bounded to
ocr_range_sample_only(total_pages) == range(0, Min(SAMPLE_PAGES, total_pages))
ocr_range(total_pages) == range(0, Min(MAX_OCR_PAGES, total_pages))

\* the page numbers extracted directly after the sample/OCR phase
tail_range(total_pages) ==
    IF total_pages > SAMPLE_PAGES THEN range(SAMPLE_PAGES, total_pages) ELSE <<>>

\* the sampling pass: the non-empty texts of the sampled pages, one per line
sample_pages(doc) ==
    LET nums == sample_range(Len(doc))
        texts == [k \in 1..Len(nums) |-> get_text(doc, nums[k])]
    IN join(<<"\n">>, SelectSeq(texts, LAMBDA t : t # <<>>))

\* the escalation test
needs_ocr_unstripped(extracted_text, total_pages) ==
    Len(extracted_text) < MIN_TEXT_LENGTH /\ total_pages > 0
needs_ocr(extracted_text, total_pages) ==
    Len(strip(extracted_text)) < MIN_TEXT_LENGTH /\ total_pages > 0

\* the names bound at module level in pdf_parser.py; extract_text imports
\* fitz into its own local scope only
module_globals == {"BaseParser", "Dict", "io", "PDFParser"}

\* f"[第 {page_num + 1} 页]\n"
page_marker(page_num) ==
    <<"[", "u7B2C", " ">> \o NatToStr(page_num + 1) \o <<" ", "u9875", "]", "\n">>

\* one round of the OCR loop: what it appends to ocr_text_parts, or the
\* NameError of evaluating fitz.Matrix where fitz is not in scope
ocr_page(doc, page_num) ==
    IF "fitz" \notin module_globals THEN Raise("NameError")
    ELSE LET result == doc[page_num + 1].lines
         IN IF result # <<>>
            THEN Return(<<page_marker(page_num) \o join(<<"\n">>, result)>>)
            ELSE Return(<<>>)

\* the OCR loop over the page numbers nums, from their k-th on
RECURSIVE ocr_pages(_, _, _, _)
ocr_pages(doc, nums, k, ocr_text_parts) ==
    IF k > Len(nums) THEN Return(ocr_text_parts)
    ELSE LET round == ocr_page(doc, nums[k])
         IN IF round.kind = "raise" THEN round
            ELSE ocr_pages(doc, nums, k + 1, ocr_text_parts \o round.value)

\* _ocr_engine = None, and the n-th engine this process constructs
NoEngine == [none |-> TRUE, id |-> 0]
RapidOCR(n) == [none |-> FALSE, id |-> n]

\* the engine an escalation works with: the shared one, constructed when
\* PDFParser._ocr_engine is None; constructed counts the RapidOCR() calls
shared_engine_per_call(engine, constructed) ==
    [engine |-> RapidOCR(constructed + 1), constructed |-> constructed + 1]
shared_engine(engine, constructed) ==
    IF engine = NoEngine
    THEN [engine |-> RapidOCR(constructed + 1), constructed |-> constructed + 1]
    ELSE [engine |-> engine, constructed |-> constructed]

\* PDFParser._extract_with_ocr: the text it returns and the shared engine
\* it leaves; backend tells whether rapidocr_onnxruntime can be imported
\* ("missing" when not) and whether RapidOCR() fails ("raises")
_extract_with_ocr(doc, backend, engine, constructed) ==
    IF backend = "missing" \/ (backend = "raises" /\ engine = NoEngine)
    THEN [text |-> <<>>, engine |-> engine, constructed |-> constructed]
    ELSE LET shared == shared_engine(engine, constructed)
             loop == ocr_pages(doc, ocr_range(Len(doc)), 1, <<>>)
         IN [text |-> IF loop.kind = "raise" THEN <<>>
                      ELSE join(<<"\n", "\n">>, loop.value),
             engine |-> shared.engine, constructed |-> shared.constructed]

\* the tail pages: each non-empty text appended on a line of its own
RECURSIVE append_tail_skip_first(_, _, _, _)
append_tail_skip_first(extracted_text, doc, nums, k) ==
    IF k > Len(nums) THEN extracted_text
    ELSE LET text == get_text(doc, nums[k])
         IN append_tail_skip_first(IF text # <<>> /\ k > 1
                                   THEN extracted_text \o <<"\n">> \o text
                                   ELSE extracted_text,
                                   doc, nums, k + 1)
RECURSIVE append_tail(_, _, _, _)
append_tail(extracted_text, doc, nums, k) ==
    IF k > Len(nums) THEN extracted_text
    ELSE LET text == get_text(doc, nums[k])
         IN append_tail(IF text # <<>> THEN extracted_text \o <<"\n">> \o text
                        ELSE extracted_text,
                        doc, nums, k + 1)

\* the PyMuPDF path of PDFParser.extract_text, when PyMuPDF does not fail
extract_with_fitz(doc, backend, engine, constructed) ==
    LET total_pages == Len(doc)
        sampled == sample_pages(doc)
        invoked == needs_ocr(sampled, total_pages)
        ocr == IF invoked THEN _extract_with_ocr(doc, backend, engine, constructed)
               ELSE [text |-> <<>>, engine |-> engine, constructed |-> constructed]
        carried == IF invoked /\ ocr.text # <<>> THEN ocr.text ELSE sampled
    IN [text |-> append_tail(carried, doc, tail_range(total_pages), 1),
        sampled |-> sampled, invoked |-> invoked, ocr_text |-> ocr.text,
        carried |-> carried, engine |-> ocr.engine, constructed |-> ocr.constructed]

\* the PyPDF2 path: the non-empty texts of all pages, one per line
extract_with_pypdf2(doc) ==
    join(<<"\n">>, SelectSeq([k \in 1..Len(doc) |-> doc[k].text], LAMBDA t : t # <<>>))

\* Inputs: pages without text and without anything to recognize, scanned
\* pages, and text pages just short of half the escalation threshold
HalfPage == (MIN_TEXT_LENGTH - 2) \div 2

PageKinds ==
    { [text |-> <<>>, lines |-> <<>>],
      [text |-> <<>>, lines |-> << <<"S">>, <<"T">> >>],
      [text |-> [i \in 1..HalfPage |-> "a"], lines |-> << <<"a">> >>],
      [text |-> [i \in 1..HalfPage |-> "b"] \o <<" ">>, lines |-> << <<"b">> >>] }

\* a document of total pages: front pages first, body pages after them
Document(total, front, body, split_) == [i \in 1..total |-> IF i <= split_ THEN front ELSE body]

Documents ==
    {<<>>} \cup { Document(total, front, body, split_) :
                    total \in 1..MaxPages, front \in PageKinds, body \in PageKinds,
                    split_ \in {1, SAMPLE_PAGES} }

PDFInstance == [class |-> "PDFParser", file_path |-> <<"a", ".", "p", "d", "f">>]

\* a process with its libraries, before any PDF was parsed
PdfInit ==
    /\ _parsers = BuiltinParsers
    /\ parser = PDFInstance
    /\ file_path = parser.file_path
    /\ path_exists = TRUE
    /\ parser_class = "None"
    /\ extension = <<>>
    /\ backends \in BackendStates("PDFParser")
    /\ max_length = 0
    /\ document_text = <<>>
    /\ parser_op = "none"
    /\ parser_result = NoResult
    /\ pdf_doc = <<>>
    /\ ocr_backend \in LibraryStates
    /\ _ocr_engine = NoEngine
    /\ engines_constructed = 0
    /\ ocr_invoked = FALSE
    /\ sampled_text = <<>>
    /\ ocr_text = <<>>
    /\ carried_text = <<>>
    /\ escalations = 0
    /\ callers = <<>>

\* a call PDFParser(file).extract_text(), on a parser made for any document
ExtractTextPDF ==
    \E doc \in Documents :
      \E fitz \in {extract_with_fitz(doc, ocr_backend, _ocr_engine, engines_constructed)} :
        LET ran == backends.primary = "ok"
        IN /\ escalations' = IF ran /\ fitz.invoked THEN escalations + 1 ELSE escalations
           /\ escalations' <= MaxEscalations
           /\ pdf_doc' = doc
           /\ parser_op' = "extract_text"
           /\ parser_result' = PDFParser_extract_text(parser, backends,
                                   IF ran THEN fitz.text ELSE extract_with_pypdf2(doc))
           /\ _ocr_engine' = IF ran THEN fitz.engine ELSE _ocr_engine
           /\ engines_constructed' = IF ran THEN fitz.constructed ELSE engines_constructed
           /\ ocr_invoked' = (ran /\ fitz.invoked)
           /\ sampled_text' = IF ran THEN fitz.sampled ELSE <<>>
           /\ ocr_text' = IF ran THEN fitz.ocr_text ELSE <<>>
           /\ carried_text' = IF ran THEN fitz.carried ELSE <<>>
           /\ UNCHANGED <<_parsers, file_path, path_exists, parser_class, extension, parser,
                          backends, max_length, document_text, ocr_backend, callers>>
           /\ UNCHANGED <<rule_vars, llm_vars, gui_vars>>

NextPdf == ExtractTextPDF

InitPdf == PdfInit /\ RuleIdle /\ LLMIdle /\ GuiIdle

SpecPdf == InitPdf /\ [][NextPdf]_vars

(***************************************************************************)
(* Concurrent OCR escalations: callers on different threads inside         *)
(* PDFParser._extract_with_ocr, each a step at a time.  Nothing in the     *)
(* method holds a lock, so a thread switch can fall between the test of    *)
(* _ocr_engine, the RapidOCR() call and the store to the class attribute.  *)
(***************************************************************************)
MaxCallers == 2

Callers == 1..MaxCallers

\* a caller outside _extract_with_ocr
IdleCaller == [pc |-> "idle", saw_none |-> FALSE, engine |-> NoEngine]

OcrRaceInit ==
    /\ pdf_doc = <<>>
    /\ ocr_backend \in LibraryStates
    /\ _ocr_engine = NoEngine
    /\ engines_constructed = 0
    /\ ocr_invoked = FALSE
    /\ sampled_text = <<>>
    /\ ocr_text = <<>>
    /\ carried_text = <<>>
    /\ escalations = 0
    /\ callers = [c \in Callers |-> IdleCaller]

\* the caller moves on; the rest of the program is left alone
CallerStep(c, to) ==
    /\ callers' = [callers EXCEPT ![c] = to]
    /\ UNCHANGED <<pdf_doc, ocr_backend, ocr_invoked, sampled_text, ocr_text, carried_text,
                   escalations>>
    /\ UNCHANGED <<rule_vars, llm_vars, parser_vars, gui_vars>>

\* extract_text escalates: the caller enters _extract_with_ocr and imports
\* RapidOCR, or returns "" when rapidocr_onnxruntime is missing
EnterOcr(c) ==
    /\ callers[c].pc \in {"idle", "returned"}
    /\ CallerStep(c, [IdleCaller EXCEPT !.pc = IF ocr_backend = "missing" THEN "returned"
                                               ELSE "imported"])
    /\ UNCHANGED <<_ocr_engine, engines_constructed>>

\* the test `self._ocr_engine is None`
TestEngine(c) ==
    /\ callers[c].pc = "imported"
    /\ CallerStep(c, [callers[c] EXCEPT !.saw_none = (_ocr_engine = NoEngine),
                                        !.pc = IF _ocr_engine = NoEngine THEN "construct"
                                               ELSE "loop"])
    /\ UNCHANGED <<_ocr_engine, engines_constructed>>

\* the call RapidOCR(), were the test repeated under a lock around it
Construct_if_still_absent(c) ==
    /\ callers[c].pc = "construct"
    /\ IF ocr_backend = "raises"
       THEN /\ CallerStep(c, [callers[c] EXCEPT !.pc = "returned"])
            /\ UNCHANGED engines_constructed
       ELSE IF _ocr_engine # NoEngine
       THEN /\ CallerStep(c, [callers[c] EXCEPT !.pc = "loop"])
            /\ UNCHANGED engines_constructed
       ELSE /\ CallerStep(c, [callers[c] EXCEPT !.pc = "store",
                                                !.engine = RapidOCR(engines_constructed + 1)])
            /\ engines_constructed' = engines_constructed + 1
    /\ UNCHANGED _ocr_engine

\* the call RapidOCR(): a new engine, or an exception that ends the method
Construct(c) ==
    /\ callers[c].pc = "construct"
    /\ IF ocr_backend = "raises"
       THEN /\ CallerStep(c, [callers[c] EXCEPT !.pc = "returned"])
            /\ UNCHANGED engines_constructed
       ELSE /\ CallerStep(c, [callers[c] EXCEPT !.pc = "store",
                                                !.engine = RapidOCR(engines_constructed + 1)])
            /\ engines_constructed' = engines_constructed + 1
    /\ UNCHANGED _ocr_engine

\* the store PDFParser._ocr_engine = <the new engine>
StoreEngine(c) ==
    /\ callers[c].pc = "store"
    /\ _ocr_engine' = callers[c].engine
    /\ CallerStep(c, [callers[c] EXCEPT !.pc = "loop"])
    /\ UNCHANGED engines_constructed

\* the OCR loop and the return: the NameError of its first round, caught
OcrLoop(c) ==
    /\ callers[c].pc = "loop"
    /\ CallerStep(c, [callers[c] EXCEPT !.pc = "returned"])
    /\ UNCHANGED <<_ocr_engine, engines_constructed>>

NextOcrRace ==
    \E c \in Callers :
        EnterOcr(c) \/ TestEngine(c) \/ Construct(c) \/ StoreEngine(c) \/ OcrLoop(c)

InitOcrRace == OcrRaceInit /\ RuleIdle /\ LLMIdle /\ ParserIdle /\ GuiIdle

SpecOcrRace == InitOcrRace /\ [][NextOcrRace]_vars

(***************************************************************************)
(* The desktop window and its scan workers (src/main.py).  The GUI thread  *)
(* runs one handler at a time and blocks inside QThread.wait(); the two    *)
(* worker threads run their scans beside it; a signal a worker emits is    *)
(* queued and its slot runs when the GUI thread is back in its event loop. *)
(***************************************************************************)
MaxLoads == 2
MaxItems == 2

Folders == {"F1", "F2"}

\* the entries a scan of the folder walks over
ItemsIn(folder) == IF folder = "F1" THEN MaxItems ELSE 1

\* no worker object yet
NoWorker ==
    [pc |-> "none", root_path |-> "None", _is_running |-> FALSE, left |-> 0,
     emitted |-> FALSE, emitted_after_stop |-> FALSE]

\* TreeLoaderWorker(folder, ...) or FileCounterThread(folder, ...), started
NewWorker(folder) ==
    [pc |-> "scan", root_path |-> folder, _is_running |-> TRUE, left |-> ItemsIn(folder),
     emitted |-> FALSE, emitted_after_stop |-> FALSE]

\* QThread.isRunning()
isRunning(worker) == worker.pc \in {"scan", "check", "emit"}

\* worker.stop()
stop(worker) == [worker EXCEPT !._is_running = FALSE]

\* one round of the scan loop: the flag is tested before each entry; once
\* the flag is down, or the entries are through, the loop is left
scan_round(worker, stopped_pc) ==
    IF ~worker._is_running THEN [worker EXCEPT !.pc = stopped_pc]
    ELSE IF worker.left = 0 THEN [worker EXCEPT !.pc = "check"]
    ELSE [worker EXCEPT !.left = worker.left - 1]

\* the test `if self._is_running:` that guards the emit
check_running(worker) ==
    [worker EXCEPT !.pc = IF worker._is_running THEN "emit" ELSE "finished"]

\* the emit, and the end of run()
emit(worker) ==
    [worker EXCEPT !.pc = "finished", !.emitted = TRUE,
                   !.emitted_after_stop = ~worker._is_running]

\* the window before a folder was chosen
GuiInit ==
    /\ gui_pc = "idle"
    /\ current_folder = "None"
    /\ file_tree = <<>>
    /\ status_label = "0"
    /\ loader_worker = NoWorker
    /\ counter_thread = NoWorker
    /\ event_queue = <<>>
    /\ loads = 0

\* what a step leaves alone outside the window and its workers
GuiFrame == UNCHANGED <<rule_vars, llm_vars, parser_vars, pdf_vars>>

\* load_folder(folder), up to the test of the running loader
LoadFolder ==
    /\ gui_pc = "idle"
    /\ loads < MaxLoads
    /\ \E folder \in Folders : current_folder' = folder
    /\ file_tree' = <<>>
    /\ loads' = loads + 1
    /\ gui_pc' = "load_folder:stop"
    /\ UNCHANGED <<status_label, loader_worker, counter_thread, event_queue>>
    /\ GuiFrame

\* `if worker and worker.isRunning(): worker.stop()`, at gui_pc = at
StopIfRunning(at, worker, wait_pc, next_pc) ==
    /\ gui_pc = at
    /\ gui_pc' = IF isRunning(worker) THEN wait_pc ELSE next_pc
    /\ UNCHANGED <<current_folder, file_tree, status_label, event_queue, loads>>
    /\ GuiFrame

\* worker.wait() returning, at gui_pc = at
WaitReturns(at, worker, next_pc) ==
    /\ gui_pc = at
    /\ ~isRunning(worker)
    /\ gui_pc' = next_pc
    /\ UNCHANGED <<current_folder, file_tree, status_label, loader_worker, counter_thread,
                   event_queue, loads>>
    /\ GuiFrame

LoadFolderStop ==
    /\ StopIfRunning("load_folder:stop", loader_worker, "load_folder:wait", "load_folder:start")
    /\ loader_worker' = IF isRunning(loader_worker) THEN stop(loader_worker) ELSE loader_worker
    /\ UNCHANGED counter_thread

LoadFolderWait == WaitReturns("load_folder:wait", loader_worker, "load_folder:start")

\* the new TreeLoaderWorker, connected and started; start_counting is next
LoadFolderStart ==
    /\ gui_pc = "load_folder:start"
    /\ loader_worker' = NewWorker(current_folder)
    /\ gui_pc' = "start_counting:stop"
    /\ UNCHANGED <<current_folder, file_tree, status_label, counter_thread, event_queue, loads>>
    /\ GuiFrame

StartCountingStop ==
    /\ StopIfRunning("start_counting:stop", counter_thread, "start_counting:wait",
                     "start_counting:start")
    /\ counter_thread' = IF isRunning(counter_thread) THEN stop(counter_thread)
                         ELSE counter_thread
    /\ UNCHANGED loader_worker

StartCountingWait == WaitReturns("start_counting:wait", counter_thread, "start_counting:start")

\* the status text, and the new FileCounterThread, connected and started
StartCountingStart ==
    /\ gui_pc = "start_counting:start"
    /\ status_label' = "scanning"
    /\ counter_thread' = NewWorker(current_folder)
    /\ gui_pc' = "idle"
    /\ UNCHANGED <<current_folder, file_tree, loader_worker, event_queue, loads>>
    /\ GuiFrame

\* the event loop runs the slot of the oldest queued data_ready:
\* on_scan_finished adds the items to the tree, which it does not clear
OnScanFinished ==
    /\ gui_pc = "idle"
    /\ event_queue # <<>>
    /\ Head(event_queue).signal = "data_ready"
    /\ file_tree' = file_tree \o <<Head(event_queue).data>>
    /\ event_queue' = Tail(event_queue)
    /\ UNCHANGED <<gui_pc, current_folder, status_label, loader_worker, counter_thread, loads>>
    /\ GuiFrame

\* the event loop runs the slot of the oldest queued count_finished
UpdateCount ==
    /\ gui_pc = "idle"
    /\ event_queue # <<>>
    /\ Head(event_queue).signal = "count_finished"
    /\ status_label' = Head(event_queue).data
    /\ event_queue' = Tail(event_queue)
    /\ UNCHANGED <<gui_pc, current_folder, file_tree, loader_worker, counter_thread, loads>>
    /\ GuiFrame

\* closeEvent: both workers stopped and waited for, then the event accepted
CloseEvent ==
    /\ gui_pc = "idle"
    /\ gui_pc' = "closeEvent:stop_loader"
    /\ UNCHANGED <<current_folder, file_tree, status_label, loader_worker, counter_thread,
                   event_queue, loads>>
    /\ GuiFrame

CloseStopLoader ==
    /\ StopIfRunning("closeEvent:stop_loader", loader_worker, "closeEvent:wait_loader",
                     "closeEvent:stop_counter")
    /\ loader_worker' = IF isRunning(loader_worker) THEN stop(loader_worker) ELSE loader_worker
    /\ UNCHANGED counter_thread

CloseWaitLoader == WaitReturns("closeEvent:wait_loader", loader_worker, "closeEvent:stop_counter")

CloseStopCounter ==
    /\ StopIfRunning("closeEvent:stop_counter", counter_thread, "closeEvent:wait_counter",
                     "closed")
    /\ counter_thread' = IF isRunning(counter_thread) THEN stop(counter_thread)
                         ELSE counter_thread
    /\ UNCHANGED loader_worker

CloseWaitCounter == WaitReturns("closeEvent:wait_counter", counter_thread, "closed")

\* a step of a worker thread leaves the window's own state alone
WorkerFrame ==
    /\ UNCHANGED <<gui_pc, current_folder, file_tree, status_label, loads>>
    /\ GuiFrame

\* TreeLoaderWorker.run: one round of scan_directory's loop; a stopped scan
\* returns its items to run(), which goes on to its test of the flag
LoaderScan ==
    /\ loader_worker.pc = "scan"
    /\ loader_worker' = scan_round(loader_worker, "check")
    /\ UNCHANGED <<counter_thread, event_queue>>
    /\ WorkerFrame

LoaderCheck ==
    /\ loader_worker.pc = "check"
    /\ loader_worker' = check_running(loader_worker)
    /\ UNCHANGED <<counter_thread, event_queue>>
    /\ WorkerFrame

\* self.data_ready.emit(data): queued for the GUI thread
LoaderEmit ==
    /\ loader_worker.pc = "emit"
    /\ loader_worker' = emit(loader_worker)
    /\ event_queue' = Append(event_queue, [signal |-> "data_ready",
                                           data |-> loader_worker.root_path])
    /\ UNCHANGED counter_thread
    /\ WorkerFrame

\* FileCounterThread.run: one round of the rglob loop; a stopped count
\* returns from run() at once
CounterScan ==
    /\ counter_thread.pc = "scan"
    /\ counter_thread' = scan_round(counter_thread, "finished")
    /\ UNCHANGED <<loader_worker, event_queue>>
    /\ WorkerFrame

CounterCheck ==
    /\ counter_thread.pc = "check"
    /\ counter_thread' = check_running(counter_thread)
    /\ UNCHANGED <<loader_worker, event_queue>>
    /\ WorkerFrame

\* self.count_finished.emit(folder_count, file_count): queued likewise
CounterEmit ==
    /\ counter_thread.pc = "emit"
    /\ counter_thread' = emit(counter_thread)
    /\ event_queue' = Append(event_queue, [signal |-> "count_finished",
                                           data |-> counter_thread.root_path])
    /\ UNCHANGED loader_worker
    /\ WorkerFrame

GuiThread ==
    \/ LoadFolder \/ LoadFolderStop \/ LoadFolderWait \/ LoadFolderStart
    \/ StartCountingStop \/ StartCountingWait \/ StartCountingStart
    \/ OnScanFinished \/ UpdateCount
    \/ CloseEvent \/ CloseStopLoader \/ CloseWaitLoader \/ CloseStopCounter
    \/ CloseWaitCounter

LoaderThread == LoaderScan \/ LoaderCheck \/ LoaderEmit

CounterThread == CounterScan \/ CounterCheck \/ CounterEmit

NextGui == GuiThread \/ LoaderThread \/ CounterThread

InitGui == GuiInit /\ RuleIdle /\ LLMIdle /\ ParserIdle /\ PdfIdle

SpecGui == InitGui /\ [][NextGui]_vars

(***************************************************************************)
(* Vocabulary of the properties of the rule DSL: the '>>'-separated tokens *)
(* of an instruction found by position, and the shape of one token.        *)
(***************************************************************************)
\* the start positions of the occurrences of '>>', scanning from the left
RECURSIVE ScanSep(_, _)
ScanSep(s, i) ==
    IF i + 1 > Len(s) THEN <<>>
    ELSE IF s[i] = ">" /\ s[i + 1] = ">" THEN <<i>> \o ScanSep(s, i + 2)
    ELSE ScanSep(s, i + 1)

CountSep(s) == Len(ScanSep(s, 1))

\* the i-th '>>'-separated token of s, whitespace around it dropped
Token(s, i) ==
    LET at == ScanSep(s, 1)
        from == IF i = 1 THEN 1 ELSE at[i - 1] + 2
        to == IF i = Len(at) + 1 THEN Len(s) ELSE at[i] - 1
    IN strip(SubSeq(s, from, to))

Called == op \in {"parse_rule_string", "generate_target_path"}

Blank(s) == \A i \in 1..Len(s) : IsSpace(s[i])

HasChar(s, c) == \E i \in 1..Len(s) : s[i] = c

FirstIndex(s, c) == CHOOSE i \in 1..Len(s) : s[i] = c /\ \A j \in 1..(i - 1) : s[j] # c

\* tok is '<name> [<content>]': a name, optional whitespace, and a bracket
\* that ends the token and holds at least one character
Bracketed(tok) ==
    /\ HasChar(tok, "[")
    /\ FirstIndex(tok, "[") > 1
    /\ tok[Len(tok)] = "]"
    /\ FirstIndex(tok, "[") + 1 < Len(tok)
    /\ \A i \in (FirstIndex(tok, "[") + 1)..(Len(tok) - 1) : tok[i] # "]"

BracketName(tok) == strip(SubSeq(tok, 1, FirstIndex(tok, "[") - 1))

BracketContent(tok) == SubSeq(tok, FirstIndex(tok, "[") + 1, Len(tok) - 1)

IsComma(c) == c = "," \/ c = "uFF0C"

\* the k-th comma-separated item of a bracket's content, as written
ItemAt(content, k) ==
    LET commas == {p \in 1..Len(content) : IsComma(content[p])}
        nth(n) == CHOOSE p \in commas : Cardinality({q \in commas : q < p}) = n - 1
        from == IF k = 1 THEN 1 ELSE nth(k - 1) + 1
        to == IF k = Cardinality(commas) + 1 THEN Len(content) ELSE nth(k) - 1
    IN SubSeq(content, from, to)

NonEmpty(x) == x # <<>>

\* the items of a bracket's content: stripped, empties discarded, in order
WrittenOptions(content) ==
    LET n == Cardinality({p \in 1..Len(content) : IsComma(content[p])}) + 1
    IN SelectSeq([k \in 1..n |-> strip(ItemAt(content, k))], NonEmpty)

IsLowerCase(s) == \A i \in 1..Len(s) : s[i] \notin UpperSet

\* the canonical key the synonym table gives a field name
CanonicalKey(name, key) ==
    \/ \E i \in 1..Len(field_mapping_keys) :
           field_mapping_keys[i] = lower(name) /\ key = field_mapping_values[i]
    \/ /\ \A i \in 1..Len(field_mapping_keys) : field_mapping_keys[i] # lower(name)
       /\ key = lower(name)

\* every token is a name, or a name followed by one bracket, and no bracket
\* character stands anywhere else
WellFormed(s) ==
    /\ ~Blank(s)
    /\ \A i \in 1..(CountSep(s) + 1) :
           LET tok == Token(s, i)
           IN /\ tok # <<>>
              /\ \/ ~HasChar(tok, "[") /\ ~HasChar(tok, "]")
                 \/ /\ Bracketed(tok)
                    /\ ~HasChar(BracketName(tok), "]")
                    /\ ~HasChar(BracketContent(tok), "[")

\* s with every bracketed enumeration removed, brackets included
StripBrackets(s) ==
    LET inside(i) == \E p \in 1..i :
                         s[p] = "[" /\ \A q \in p..(i - 1) : s[q] # "]"
        kept == {i \in 1..Len(s) : ~inside(i)}
        nth(n) == CHOOSE i \in kept : Cardinality({j \in kept : j < i}) = n - 1
    IN [n \in 1..Cardinality(kept) |-> s[nth(n)]]

(***************************************************************************)
(* Properties of the rule DSL parser and the path generator.               *)
(***************************************************************************)
\* C1: for a chain of n >= 1 RuleSpecs the returned path splits on the
\* platform separator into exactly n segments, the i-th being the segment
\* produced for the i-th RuleSpec, also when record values hold the separator.
C1_OneSegmentPerRuleSpec ==
    (op = "generate_target_path" /\ Len(parsed_rules) >= 1)
        => split(path, <<sep>>) = path_parts

\* C2: the segment of a RuleSpec is 'Unknown' when its key is missing from the
\* record, and otherwise the stringified, stripped value when that string is
\* non-empty (whatever the value's type) and 'Unknown' when it is empty.
C2_SegmentIsStrippedValue ==
    op = "generate_target_path" =>
        \A i \in 1..Len(parsed_rules) :
            LET key == parsed_rules[i].key
            IN path_parts[i] =
                   IF key \notin DOMAIN ai_data_dict THEN Unknown
                   ELSE IF strip(str(ai_data_dict[key])) # <<>>
                        THEN strip(str(ai_data_dict[key]))
                        ELSE Unknown

\* C3: a non-blank instruction with k occurrences of '>>' parses to exactly
\* k+1 RuleSpecs, the i-th derived from the i-th token; no token is dropped,
\* reordered or deduplicated.
C3_OneRuleSpecPerToken ==
    (Called /\ ~Blank(rule_string)) =>
        /\ Len(parsed_rules) = CountSep(rule_string) + 1
        /\ \A i \in 1..Len(parsed_rules) :
               parsed_rules[i] = parse_part(Token(rule_string, i))

\* C3 happens: a field named twice (by two synonyms) appears twice
C3_Witness ==
    /\ Called
    /\ CountSep(rule_string) = 1
    /\ Len(parsed_rules) = 2
    /\ parsed_rules[1].key = KeyYear
    /\ parsed_rules[2].key = KeyYear

\* C4: the key of every RuleSpec is the synonym table's entry for the
\* lower-cased field name, or the lower-cased name itself when the table
\* has none; every key is lower-case.
C4_KeysAreCanonicalLowerCase ==
    Called =>
        \A i \in 1..Len(parsed_rules) :
            LET tok == Token(rule_string, i)
                name == IF Bracketed(tok) THEN BracketName(tok) ELSE tok
            IN /\ CanonicalKey(name, parsed_rules[i].key)
               /\ IsLowerCase(parsed_rules[i].key)

\* C4 happens: an upper-case synonym is mapped and an unmapped mixed-case
\* name passes through lower-cased
C4_Witness ==
    /\ op = "parse_rule_string"
    /\ Len(parsed_rules) = 2
    /\ Token(rule_string, 1) = <<"Y", "E", "A", "R">>
    /\ parsed_rules[1].key = KeyYear
    /\ Token(rule_string, 2) = <<"x", "Y">>
    /\ parsed_rules[2].key = KeyXy

\* C5: a token without a bracket has options None; a token '<name> [..]' has
\* as options the bracket's comma-separated items (ASCII or full-width
\* comma), each stripped, empties discarded, in written order, case kept.
C5_OptionsAsWritten ==
    Called =>
        \A i \in 1..Len(parsed_rules) :
            LET tok == Token(rule_string, i)
            IN /\ ~HasChar(tok, "[") => parsed_rules[i].options = NoOptions
               /\ Bracketed(tok) =>
                      parsed_rules[i].options =
                          [none |-> FALSE, list |-> WrittenOptions(BracketContent(tok))]

\* C5 happens: a bracket written without whitespace before it, with a
\* full-width comma and empty items, beside a token without a bracket
C5_Witness ==
    /\ op = "parse_rule_string"
    /\ Len(parsed_rules) = 2
    /\ Token(rule_string, 1) = <<"x", "Y", "[", "b", "uFF0C", "A", ",", ",", " ", "]">>
    /\ parsed_rules[1].options = [none |-> FALSE, list |-> << <<"b">>, <<"A">> >>]
    /\ parsed_rules[2].options = NoOptions

\* C6: an empty or whitespace-only instruction parses to the empty chain, and
\* generate_target_path on an empty chain returns 'Unknown', whatever the record.
C6_BlankInstructionIsUnknown ==
    /\ (Called /\ Blank(rule_string)) => parsed_rules = <<>>
    /\ (op = "generate_target_path" /\ parsed_rules = <<>>) => path = Unknown

\* C6 happens: a whitespace-only instruction and a non-empty record
C6_Witness ==
    /\ op = "generate_target_path"
    /\ rule_string = <<" ">>
    /\ DOMAIN ai_data_dict # {}
    /\ path = Unknown

\* C7: the enumerated options do not influence the path: the path of an
\* instruction equals the path of the same instruction with its brackets
\* removed, and a value that is not among the options is still emitted.
C7_OptionsDoNotInfluencePath ==
    op = "generate_target_path" =>
        /\ WellFormed(rule_string) =>
               path = generate_target_path(StripBrackets(rule_string), ai_data_dict)
        /\ \A i \in 1..Len(parsed_rules) :
               LET key == parsed_rules[i].key
               IN (/\ key \in DOMAIN ai_data_dict
                   /\ ai_data_dict[key].t = "str"
                   /\ strip(ai_data_dict[key].s) # <<>>)
                      => path_parts[i] = strip(ai_data_dict[key].s)

\* C7 happens: the record's year is not one of the options [A, b] of the
\* instruction, and is the path
C7_Witness ==
    /\ op = "generate_target_path"
    /\ WellFormed(rule_string)
    /\ Len(parsed_rules) = 1
    /\ parsed_rules[1].options = [none |-> FALSE, list |-> << <<"A">>, <<"b">> >>]
    /\ path = <<"2", "0", "2", "4">>

(***************************************************************************)
(* Properties of classify.                                                 *)
(***************************************************************************)
Classified == llm_op = "classify" /\ response.got

\* the options, by index, that occur in text ignoring letter case
Occurring(text) ==
    {i \in 1..Len(options) : Contains(lower(text), lower(options[i]))}

\* C9: for a non-empty options list and any response of the backend,
\* classify returns an element of the list, and the first element when no
\* option occurs in the response.
C9_ClassifyReturnsAnOption ==
    (Classified /\ options # <<>>) =>
        /\ llm_result.kind = "return"
        /\ \E i \in 1..Len(options) : llm_result.value = options[i]
        /\ Occurring(response.text) = {} => llm_result.value = options[1]

\* C9 happens: the response names none of two different options
C9_Witness ==
    /\ Classified
    /\ Len(options) = 2
    /\ options[1] # options[2]
    /\ Occurring(response.text) = {}
    /\ llm_result = Return(options[1])

\* C10 as stated: classify returns the option of smallest index whose
\* lower-cased text is a substring of the lower-cased response.
C10_FirstOptionInResponse ==
    (Classified /\ Occurring(response.text) # {}) =>
        llm_result = Return(options[CHOOSE i \in Occurring(response.text) :
                                        \A j \in Occurring(response.text) : i <= j])

\* C10 amended: classify returns the option of smallest index whose
\* lower-cased text is a substring of the lower-cased response with its
\* leading and trailing whitespace removed; when one option is inside
\* another and the response names the longer, the one listed first wins.
C10_FirstOptionInStrippedResponse ==
    (Classified /\ Occurring(strip(response.text)) # {}) =>
        llm_result = Return(options[CHOOSE i \in Occurring(strip(response.text)) :
                                        \A j \in Occurring(strip(response.text)) : i <= j])

\* C10 happens: the response names the longer of two options, the shorter
\* is inside it and listed first, and is returned
C10_Witness ==
    /\ Classified
    /\ options = << <<"A", "b">>, <<"x", "A", "b">> >>
    /\ response.text = <<"X", "A", "B">>
    /\ llm_result = Return(<<"A", "b">>)

(***************************************************************************)
(* Properties of extract_json, of the backend calls and of the instance.   *)
(***************************************************************************)
Extracted == llm_op = "extract_json" /\ response.got

LastIndex(s, c) == CHOOSE i \in 1..Len(s) : s[i] = c /\ \A j \in (i + 1)..Len(s) : s[j] # c

\* s has a '{' and a '}' somewhere after its first '{'
HasBraceSpan(s) ==
    /\ HasChar(s, "{")
    /\ HasChar(s, "}")
    /\ FirstIndex(s, "{") < LastIndex(s, "}")

\* from the first '{' of s to its last '}'
BraceSpan(s) == SubSeq(s, FirstIndex(s, "{"), LastIndex(s, "}"))

\* C11: extract_json decodes exactly the span from the response's first '{'
\* to its last '}' and returns the decoded map; it raises ValueError when
\* there is no such span and when the span is not valid JSON, as when a
\* valid object is followed by text that holds a '}'.
C11_DecodesFirstToLastBrace ==
    Extracted =>
        IF HasBraceSpan(response.text) /\ json_loads(BraceSpan(response.text)).ok
        THEN llm_result = Return(json_loads(BraceSpan(response.text)).v)
        ELSE llm_result.kind = "raise" /\ llm_result.exc = "ValueError"

\* C11 happens: a valid object followed by ' }' is not decoded
C11_Witness ==
    /\ Extracted
    /\ response.text = <<"{", "\"", "k", "\"", ":", "1", "}", " ", "}">>
    /\ json_loads(SubSeq(response.text, 1, 7)).ok
    /\ llm_result.kind = "raise"
    /\ llm_result.exc = "ValueError"

LLMCalled == llm_op \in {"generate", "classify", "extract_json"}

\* C12: generate makes no backend call and fails when the model is not
\* loaded, and otherwise makes exactly one backend call per invocation; when
\* that call raises, the failure surfaces as a RuntimeError without a retry,
\* and classify and extract_json propagate it instead of returning a default.
C12_OneBackendCallNoRetry ==
    LLMCalled =>
        /\ llm = "None" =>
               /\ backend_calls = 0
               /\ llm_result.kind = "raise"
               /\ llm_result.exc = "RuntimeError"
        /\ llm # "None" => backend_calls = 1
        /\ (llm # "None" /\ ~response.got) =>
               /\ llm_result.kind = "raise"
               /\ llm_result.exc = "RuntimeError"

\* C12 happens: the backend raises under classify, which has options to
\* fall back on and raises
C12_Witness ==
    /\ llm_op = "classify"
    /\ options # <<>>
    /\ ~response.got
    /\ backend_calls = 1
    /\ llm_result.kind = "raise"
    /\ llm_result.exc = "RuntimeError"

\* the user prompt the last operation gave to generate
UserContent ==
    CASE llm_op = "generate" -> prompt
      [] llm_op = "classify" -> classification_prompt(prompt, options)
      [] llm_op = "extract_json" -> json_prompt(prompt)

\* the list is [user] or [system, user], built from this call's arguments
MessagesOfThisCall(with_system) ==
    /\ Len(messages) = IF with_system THEN 2 ELSE 1
    /\ messages[Len(messages)] = [role |-> "user", content |-> UserContent]
    /\ with_system => messages[1] = [role |-> "system", content |-> system_prompt.s]

\* C13 as stated: every backend call sends [user] or [system, user], the
\* system message present exactly when a system prompt was supplied.
C13_SystemMessageIffSupplied ==
    (LLMCalled /\ backend_calls = 1) => MessagesOfThisCall(~system_prompt.none)

\* C13 amended: every backend call sends [user] or [system, user], the
\* system message present exactly when a non-empty system prompt was
\* supplied; there is exactly one user message and it is last; every message
\* is built from the arguments of this call, none from an earlier call.
C13_SystemMessageIffNonEmpty ==
    (LLMCalled /\ backend_calls = 1) =>
        MessagesOfThisCall(~system_prompt.none /\ system_prompt.s # <<>>)

\* C13 happens: extract_json with a system prompt sends two messages
C13_Witness ==
    /\ llm_op = "extract_json"
    /\ system_prompt = [none |-> FALSE, s |-> <<"s">>]
    /\ prompt = <<"q">>
    /\ messages = << [role |-> "system", content |-> <<"s">>],
                     [role |-> "user", content |-> <<"q", "{json_prompt:1}">>] >>

\* C18: construction loads the model and either fails or yields an instance
\* whose handle is set; on a constructed instance is_available() is true and
\* stays true after any calls, and no call fails with 'model not loaded'.
C18_ConstructedIsAvailable ==
    /\ llm_op = "__init__" =>
           \/ llm_result.kind = "raise" /\ llm = "None"
           \/ llm_result.kind = "return" /\ llm # "None"
    /\ Constructed => is_available
    /\ LLMCalled => llm_result.msg # "model not loaded"

\* C18 happens: a call failed on a constructed instance, which is still
\* available
C18_Witness ==
    /\ llm_op = "extract_json"
    /\ llm_result.kind = "raise"
    /\ is_available

(***************************************************************************)
(* Properties of build_dynamic_prompt.                                     *)
(***************************************************************************)
Built == op = "build_dynamic_prompt"

HasOptions(rule) == ~rule.options.none /\ rule.options.list # <<>>

\* what follows the base prompt for the rules from the i-th on: for each
\* rule with options a line break and its constraint
RECURSIVE BlocksFrom(_, _)
BlocksFrom(rules, i) ==
    IF i > Len(rules) THEN <<>>
    ELSE (IF HasOptions(rules[i])
          THEN <<"\n">> \o constraint(rules[i].key, join_options(rules[i].options.list))
          ELSE <<>>) \o BlocksFrom(rules, i + 1)

\* C19: the output starts with the unmodified base prompt, followed by one
\* constraint block per RuleSpec with non-empty options, in chain order, each
\* naming that key and its options in listed order; nothing is added for a
\* RuleSpec without options, and the output is the base prompt when no
\* RuleSpec has options.
C19_BasePromptThenConstraints ==
    Built =>
        /\ dynamic_prompt = SYSTEM_PROMPT \o BlocksFrom(parsed_rules, 1)
        /\ (\A i \in 1..Len(parsed_rules) : ~HasOptions(parsed_rules[i]))
               => dynamic_prompt = SYSTEM_PROMPT

\* C19 happens: of two rules the first has an empty options list and the
\* second has two options
C19_Witness ==
    /\ Built
    /\ Len(parsed_rules) = 2
    /\ parsed_rules[1].options = [none |-> FALSE, list |-> <<>>]
    /\ parsed_rules[2].options = [none |-> FALSE, list |-> << <<"A">>, <<"b">> >>]
    /\ dynamic_prompt = SYSTEM_PROMPT \o <<"\n">>
           \o constraint(KeyYear, <<"A", ",", " ", "b">>)

ImportantConstraint ==
    <<"I", "M", "P", "O", "R", "T", "A", "N", "T", " ", "C", "O", "N", "S",
      "T", "R", "A", "I", "N", "T">>

ClassificationTask ==
    <<"c", "l", "a", "s", "s", "i", "f", "i", "c", "a", "t", "i", "o", "n",
      " ", "t", "a", "s", "k">>

\* C20: for a chain with a RuleSpec with non-empty options the prompt holds
\* the marker 'IMPORTANT CONSTRAINT', that RuleSpec's options joined by ', ',
\* and, ignoring case, the phrase 'classification task'.
C20_PromptHoldsEnglishMarkers ==
    Built =>
        \A i \in 1..Len(parsed_rules) :
            HasOptions(parsed_rules[i]) =>
                /\ Contains(dynamic_prompt, ImportantConstraint)
                /\ Contains(dynamic_prompt, join_options(parsed_rules[i].options.list))
                /\ Contains(lower(dynamic_prompt), ClassificationTask)

(***************************************************************************)
(* Properties of the parser registry.                                      *)
(***************************************************************************)
\* p ends in an extension: a '.' that neither starts nor ends the last
\* component of p, with no other '.' after it
HasExtension(p) ==
    \E i \in 2..(Len(p) - 1) :
        /\ p[i] = "."
        /\ p[i - 1] # "/"
        /\ \A j \in (i + 1)..Len(p) : p[j] \notin {".", "/"}

ExtensionOf(p) ==
    SubSeq(p, CHOOSE i \in 2..(Len(p) - 1) :
                  /\ p[i] = "."
                  /\ \A j \in (i + 1)..Len(p) : p[j] \notin {".", "/"},
           Len(p))

\* the registry binds extension e to class c
Binds(registry, e, c) == \E i \in 1..Len(registry) : registry[i] = [key |-> e, value |-> c]

Keys(registry) == {registry[i].key : i \in 1..Len(registry)}

\* C14: get_parser selects the variant bound to the lower-cased extension of
\* the path; it raises ValueError when the extension has no binding, whether
\* or not the file exists, and FileNotFoundError when the extension is bound
\* and the path does not exist; no parser is returned in either failure.
C14_ParserByLowerCasedExtension ==
    parser_op = "get_parser" =>
        LET bound == /\ HasExtension(file_path)
                     /\ lower(ExtensionOf(file_path)) \in Keys(_parsers)
        IN /\ ~bound => parser_result = Raise("ValueError") /\ parser = NoParser
           /\ (bound /\ ~path_exists) =>
                  parser_result = Raise("FileNotFoundError") /\ parser = NoParser
           /\ (bound /\ path_exists) =>
                  /\ parser_result = Return(parser)
                  /\ parser.file_path = file_path
                  /\ Binds(_parsers, lower(ExtensionOf(file_path)), parser.class)

\* C14 happens: an upper-case extension selects the class registered for
\* the lower-case one
C14_Witness ==
    /\ parser_op = "get_parser"
    /\ file_path = <<"a", ".", "P", "D", "F">>
    /\ path_exists
    /\ parser = [class |-> "CustomParser", file_path |-> file_path]

\* C15: a successful register_parser binds the lower-cased extension to the
\* given variant and changes no other binding, so the registry always binds
\* an extension to its most recent successful registration or to the
\* built-in; registering a class that is not a parser raises TypeError and
\* leaves the registry unchanged; no other operation changes the registry;
\* get_supported_extensions returns exactly the keys, which never shrink.
C15_RegistryFrame ==
    [][/\ parser_op' = "register_parser" =>
              IF parser_class' \in ParserSubclasses
              THEN /\ parser_result'.kind = "return"
                   /\ Binds(_parsers', lower(extension'), parser_class')
                   /\ Len(_parsers') >= Len(_parsers)
                   /\ \A i \in 1..Len(_parsers) :
                          _parsers[i].key # lower(extension') => _parsers'[i] = _parsers[i]
                   /\ \A i \in 1..Len(_parsers') :
                          _parsers'[i].key # lower(extension') => i <= Len(_parsers)
                   /\ Len(_parsers') = Cardinality(Keys(_parsers'))
              ELSE /\ parser_result' = Raise("TypeError")
                   /\ _parsers' = _parsers
       /\ parser_op' # "register_parser" => _parsers' = _parsers
       /\ parser_op' = "get_supported_extensions" =>
              /\ parser_result'.kind = "return"
              /\ {parser_result'.value[i] : i \in 1..Len(parser_result'.value)}
                     = Keys(_parsers')
              /\ Len(parser_result'.value) = Cardinality(Keys(_parsers'))
       /\ Keys(_parsers) \subseteq Keys(_parsers')
      ]_vars

\* C15 happens: a built-in binding was replaced, a new extension was bound
\* in lower case, and a registration was refused
C15_Witness ==
    /\ parser_op = "register_parser"
    /\ parser_class = "dict"
    /\ parser_result = Raise("TypeError")
    /\ Binds(_parsers, <<".", "p", "d", "f">>, "CustomParser")
    /\ Binds(_parsers, <<".", "c", "u", "s", "t", "o", "m">>, "TextParser")
    /\ Binds(_parsers, <<".", "d", "o", "c", "x">>, "DOCXParser")
    /\ Len(_parsers) = Len(BuiltinParsers) + 1

(***************************************************************************)
(* Properties of extract_text and extract_summary.                         *)
(***************************************************************************)
\* C16: for every built-in parser and every combination of missing
\* libraries and failing libraries, the alternate library failing after the
\* primary one is found missing included, extract_text returns a string and
\* raises nothing.
C16_ExtractTextNeverRaises ==
    parser_op = "extract_text" => parser_result.kind = "return"

\* what extract_text returns for the parser, its libraries and its document
ExtractedText == extract_text(parser, backends, document_text)

C27_NoEmptyKey ==
    Called => \A i \in 1..Len(parsed_rules) : parsed_rules[i].key # <<>>

\* C28: in every RuleSpec returned by parse_rule_string, options is None or
\* a non-empty list of non-empty strings; an empty list is never produced,
\* also for a bracket that holds only commas and whitespace.
C28_NoEmptyOptionsList ==
    Called =>
        \A i \in 1..Len(parsed_rules) :
            \/ parsed_rules[i].options = NoOptions
            \/ /\ ~parsed_rules[i].options.none
               /\ parsed_rules[i].options.list # <<>>
               /\ \A k \in 1..Len(parsed_rules[i].options.list) :
                      parsed_rules[i].options.list[k] # <<>>

(***************************************************************************)
(* Vocabulary of the properties of the PDF hybrid extraction: the pages of *)
(* the document by 1-based position, so page index i is position i + 1.    *)
(***************************************************************************)
\* the last call was extract_text on a PDF parser and PyMuPDF did its work
PdfExtracted == parser_op = "extract_text" /\ parser.class = "PDFParser" /\ backends.primary = "ok"

TotalPages == Len(pdf_doc)

\* the smaller of n and the page count
AtMost(n) == IF TotalPages < n THEN TotalPages ELSE n

\* the direct texts of the positions from..to, the pages without text left
\* out, a line break between one text and the next
RECURSIVE DirectText(_, _)
DirectText(from, to) ==
    IF from > to THEN <<>>
    ELSE LET before == DirectText(from, to - 1)
             t == pdf_doc[to].text
         IN IF t = <<>> THEN before
            ELSE IF before = <<>> THEN t
            ELSE before \o <<"\n">> \o t

\* the length of s without its leading and its trailing whitespace
StrippedLength(s) ==
    LET ws == {i \in 1..Len(s) : IsSpace(s[i])}
        leading == {i \in ws : \A j \in 1..i : j \in ws}
        trailing == {i \in ws : \A j \in i..Len(s) : j \in ws}
    IN IF Cardinality(ws) = Len(s) THEN 0
       ELSE Len(s) - Cardinality(leading) - Cardinality(trailing)

\* the marker of the page at position p
PageMarker(p) == <<"[", "u7B2C", " ">> \o NatToStr(p) \o <<" ", "u9875", "]">>

\* what the engine recognizes on the positions 1..to: per page with lines
\* its marker and its lines in the engine's order, a blank line between pages
RECURSIVE RecognizedText(_)
RecognizedText(to) ==
    IF to < 1 THEN <<>>
    ELSE LET before == RecognizedText(to - 1)
             block == PageMarker(to) \o <<"\n">> \o join(<<"\n">>, pdf_doc[to].lines)
         IN IF pdf_doc[to].lines = <<>> THEN before
            ELSE IF before = <<>> THEN block
            ELSE before \o <<"\n", "\n">> \o block

\* the engine recognizes text on one of the first 7 pages
Recognizes == \E p \in 1..AtMost(7) : pdf_doc[p].lines # <<>>

\* C21: with the primary backend available, OCR escalation is invoked if
\* and only if the document has more than zero pages and the stripped length
\* of the text directly extracted from its first min(5, total_pages) pages
\* is below 50 characters.
C21_EscalatesIffShortSample ==
    PdfExtracted =>
        (ocr_invoked <=> (TotalPages > 0
                          /\ StrippedLength(DirectText(1, AtMost(5))) < 50))

\* an escalating call whose sample holds 50 characters, 49 of them after
\* stripping
C21_Witness ==
    PdfExtracted /\ ocr_invoked /\ Len(sampled_text) = 50

\* C22: when OCR escalation is invoked, the text carried forward from the
\* sample/OCR phase is the OCR text (per page its marker and its recognized
\* lines, in page order) whenever the engine recognizes text on one of the
\* first min(7, total_pages) pages, and the sampled text only otherwise.
C22_OcrTextCarriedForward ==
    (PdfExtracted /\ ocr_invoked /\ ocr_backend = "ok") =>
        carried_text = IF Recognizes THEN RecognizedText(AtMost(7)) ELSE sampled_text

\* the non-empty direct texts of the pages of index 5 and above, in page order
TailTexts ==
    SelectSeq([k \in 1..(TotalPages - 5) |-> pdf_doc[k + 5].text], LAMBDA t : t # <<>>)

\* C23: for every PDF with more than 5 pages, the result is the text of the
\* sample/OCR phase followed by the direct text of every page of index 5
\* and above, in page order, each on a line of its own, whether or not OCR
\* was invoked.
C23_TailPagesAppended ==
    (PdfExtracted /\ TotalPages > 5) =>
        /\ parser_result.kind = "return"
        /\ Len(parser_result.value) >= Len(carried_text)
        /\ SubSeq(parser_result.value, 1, Len(carried_text)) = carried_text
        /\ split(SubSeq(parser_result.value, Len(carried_text) + 1,
                        Len(parser_result.value)), <<"\n">>)
               = << <<>> >> \o TailTexts

\* an escalating call on a document whose pages of index 5 and above hold
\* text
C23_Witness ==
    PdfExtracted /\ TotalPages > 6 /\ ocr_invoked /\ Len(TailTexts) = TotalPages - 5

\* C24: over a sequential series of extract_text calls the shared OCR engine
\* is constructed at most once, not before a call escalated to OCR, and
\* every later escalation finds that first engine in place.
C24_EngineConstructedOnce ==
    /\ engines_constructed <= 1
    /\ escalations = 0 => (_ocr_engine = NoEngine /\ engines_constructed = 0)
    /\ engines_constructed = 1 => _ocr_engine = RapidOCR(1)
    /\ engines_constructed = 0 => _ocr_engine = NoEngine

\* a second escalating call, with the engine of the first still in place
C24_Witness ==
    PdfExtracted /\ ocr_invoked /\ escalations = 2 /\ engines_constructed = 1

\* a caller past the call RapidOCR() of its current escalation
PastConstruct(c) == callers[c].pc \in {"store", "loop", "returned"}

\* C25: the lazy construction of the shared OCR engine is unsynchronized:
\* every caller that saw the engine absent constructs one, whatever another
\* caller stored in the meantime, so two concurrent callers can both
\* construct an engine and more than one construction is reachable.
C25_EveryAbsentObserverConstructs ==
    (ocr_backend = "ok" /\ callers # <<>>) =>
        /\ \A c \in Callers :
               (callers[c].saw_none /\ PastConstruct(c)) => callers[c].engine # NoEngine
        /\ engines_constructed <= MaxCallers

\* two callers both saw the engine absent and each constructed its own
C25_Witness ==
    /\ callers # <<>>
    /\ engines_constructed >= 2
    /\ \E c1, c2 \in Callers :
           /\ c1 # c2
           /\ callers[c1].saw_none /\ callers[c2].saw_none
           /\ callers[c1].engine # NoEngine /\ callers[c2].engine # NoEngine
           /\ callers[c1].engine # callers[c2].engine

\* the page indices of a range
Indices(r) == {r[k] : k \in 1..Len(r)}

\* C26 (as stated): for every page count the page range of the OCR
\* escalation and the tail range extracted directly afterwards are disjoint.
C26_OcrAndTailDisjoint ==
    PdfExtracted =>
        Indices(ocr_range(TotalPages)) \cap Indices(tail_range(TotalPages)) = {}

\* C26 (amended): the two ranges share exactly the page indices 5 to
\* min(7, total_pages) - 1; they are disjoint only for 5 pages or fewer.
C26_OcrAndTailShareWindow ==
    PdfExtracted =>
        /\ Indices(ocr_range(TotalPages)) \cap Indices(tail_range(TotalPages))
               = 5..(AtMost(7) - 1)
        /\ (Indices(ocr_range(TotalPages)) \cap Indices(tail_range(TotalPages)) = {})
               <=> TotalPages <= 5

\* an escalating call on a document of 7 pages or more: the pages of index
\* 5 and 6 are in both ranges
C26_Witness ==
    PdfExtracted /\ ocr_invoked /\ TotalPages >= 7 /\ Len(TailTexts) > 0

(***************************************************************************)
(* Properties of the window and its scan workers.                          *)
(***************************************************************************)
\* C29: after load_folder(F2) the tree is populated only from F2's scan
\* result: no data_ready delivery carrying the data of an earlier folder is
\* applied to the tree after it was cleared for F2.
C29_TreeHoldsCurrentFolderOnly ==
    \A i \in 1..Len(file_tree) : file_tree[i] = current_folder

\* C30: cancellation is effective: a TreeLoaderWorker or FileCounterThread
\* on which stop() was called before its run() emitted never emits its
\* result signal afterwards.
C30_NoEmitAfterStop ==
    (gui_pc # "none") =>
        (~loader_worker.emitted_after_stop /\ ~counter_thread.emitted_after_stop)

====
